---- MODULE Spec2Model ----
(***************************************************************************)
(* Model of the WALT load balancer, kernel/sched/walt/walt_lb.c: newidle   *)
(* pulls, tick-driven active migration, the active-migration stopper       *)
(* worker, the rotation protocol and the migrate-queued-task hook, run     *)
(* concurrently by one execution context per CPU.                          *)
(***************************************************************************)
EXTENDS Integers, Sequences, FiniteSets, TLC

(* ---------------------------------------------------------------------- *)
(* Bounds of the model                                                     *)
(* ---------------------------------------------------------------------- *)
\* number of operations (ticks, newidle balances, preemptions, hook calls,
\* hotplug steps) started in one behaviour
MaxOps == 2
\* the wall clock, in units of ClockUnitNs; tasks were last enqueued at 0
Now == 2
ClockUnitNs == 8000000

(* ---------------------------------------------------------------------- *)
(* Topology and tasks                                                      *)
(* ---------------------------------------------------------------------- *)
Cpus == {0, 1, 2}
Tasks == {1, 2, 3}
NoTask == 0
NoCpu == -1
nr_cpu_ids == Cardinality(Cpus)

capacity_orig_of(cpu) == IF cpu = 2 THEN 1024 ELSE 400
cluster_id(cpu) == IF cpu = 2 THEN 1 ELSE 0
\* a cluster test that holds for no pair, not even of a cpu with itself
same_cluster_never(a, b) == FALSE
same_cluster(a, b) == cluster_id(a) = cluster_id(b)
is_min_capacity_cpu(cpu) == \A o \in Cpus : capacity_orig_of(cpu) <= capacity_orig_of(o)
num_sched_clusters == Cardinality({cluster_id(c) : c \in Cpus})
\* cpu_array[order_index][cluster]: the clusters, the own one first
cpu_array(order_index, cluster) ==
    LET own == {c \in Cpus : cluster_id(c) = order_index}
        other == {c \in Cpus : cluster_id(c) # order_index}
    IN IF cluster = 0 THEN own ELSE other

\* per-task attributes that the balancer only reads
cpus_ptr(p) == IF p = 3 THEN {1, 2} ELSE Cpus
nr_cpus_allowed(p) == Cardinality(cpus_ptr(p))
task_misfit(p) == p # 3
task_util(p) == IF p = NoTask THEN 0 ELSE IF p = 3 THEN 60 ELSE 450
task_prio(p) == 120
task_state(p) == "TASK_RUNNING"
in_iowait(p) == FALSE
strict_max_boost(p) == FALSE

MAX_RT_PRIO == 100
WALT_ROTATION_THRESHOLD_NS == 16000000
SMALL_TASK_THRESHOLD == 102

VARIABLES
    cfs_tasks,          \* [cpu -> sequence of tasks], rq->cfs_tasks
    curr,               \* [cpu -> task or NoTask], rq->curr (NoTask: idle/stopper)
    task_cpu,           \* [task -> cpu], task_cpu(p)
    on_rq,              \* [task -> "queued" | "migrating"], p->on_rq
    last_enqueued_ts,   \* [task -> time], wts->last_enqueued_ts
    lock,               \* [cpu -> holder cpu or NoCpu], rq->lock
    walt_lb_migration_lock, \* holder cpu or NoCpu
    active_balance,     \* [cpu -> BOOLEAN], rq->active_balance
    push_cpu,           \* [cpu -> cpu], rq->push_cpu
    push_task,          \* [cpu -> task or NoTask], wrq->push_task
    reserved,           \* [cpu -> BOOLEAN], the CPU_RESERVED flag
    misfit_task_load,   \* [cpu -> 0 | 1], rq->misfit_task_load
    idle_stamp,         \* [cpu -> time in ns, 0 when reset], rq->idle_stamp
    cpu_active,         \* [cpu -> BOOLEAN]
    stopper_enabled,    \* [cpu -> BOOLEAN], the cpu's stopper accepts work
    walt_rotation_enabled,
    active_balance_work,\* [cpu -> BOOLEAN], the stopper work is queued
    walt_lb_rotate_works, \* [cpu -> record], the per-cpu rotate work item
    pc,                 \* [cpu -> position of the cpu's execution context]
    local,              \* [cpu -> locals of the running operation]
    ops,                \* operations that may still be started
    sel                 \* the arguments and results of a selector call under test

vars == <<cfs_tasks, curr, task_cpu, on_rq, last_enqueued_ts, lock,
          walt_lb_migration_lock, active_balance, push_cpu, push_task,
          reserved, misfit_task_load, idle_stamp, cpu_active, stopper_enabled,
          walt_rotation_enabled, active_balance_work, walt_lb_rotate_works,
          pc, local, ops, sel>>

\* the state of the balancer and of its collaborators
progvars == <<cfs_tasks, curr, task_cpu, on_rq, last_enqueued_ts, lock,
              walt_lb_migration_lock, active_balance, push_cpu, push_task,
              reserved, misfit_task_load, idle_stamp, cpu_active, stopper_enabled,
              walt_rotation_enabled, active_balance_work, walt_lb_rotate_works,
              pc, local, ops>>

rqvars == <<cfs_tasks, task_cpu, on_rq, last_enqueued_ts>>
abvars == <<active_balance, push_cpu, push_task>>
envvars == <<cpu_active, stopper_enabled, walt_rotation_enabled>>

(* ---------------------------------------------------------------------- *)
(* Helpers                                                                 *)
(* ---------------------------------------------------------------------- *)
NoLocal == [kind |-> "none", src |-> NoCpu, dst |-> NoCpu, p |-> NoTask, pulled |-> 0]
\* pending: queued on the workqueue; ran: walt_lb_rotate_work_func is past
\* its migrate_swap call ("swapped" or "skipped"), else "no"
NoWork == [pending |-> FALSE, ran |-> "no", src_task |-> NoTask, dst_task |-> NoTask,
           src_cpu |-> NoCpu, dst_cpu |-> NoCpu]

InQueue(p, cpu) == \E i \in 1 .. Len(cfs_tasks[cpu]) : cfs_tasks[cpu][i] = p
QueuesOf(p) == {c \in Cpus : InQueue(p, c)}

RECURSIVE SeqRemove(_, _)
SeqRemove(s, p) ==
    IF s = <<>> THEN <<>>
    ELSE IF Head(s) = p THEN Tail(s)
    ELSE <<Head(s)>> \o SeqRemove(Tail(s), p)

Min2(a, b) == IF a < b THEN a ELSE b
Max2(a, b) == IF a < b THEN b ELSE a

\* the cpus of a mask in the order for_each_cpu visits them
RECURSIVE for_each_cpu(_)
for_each_cpu(mask) ==
    IF mask = {} THEN <<>>
    ELSE LET lo == CHOOSE c \in mask : \A o \in mask : c <= o
         IN <<lo>> \o for_each_cpu(mask \ {lo})

sched_ktime_clock == Now * ClockUnitNs
enqueue_ns(p) == last_enqueued_ts[p] * ClockUnitNs

\* rq->cfs.h_nr_running and rq->nr_running; the stopper thread is itself a
\* runnable task of its cpu from the moment its work is queued until the
\* worker has returned
h_nr_running(cpu) == Len(cfs_tasks[cpu])
nr_running(cpu) ==
    Len(cfs_tasks[cpu])
    + (IF active_balance_work[cpu] \/ local[cpu].kind \in {"am", "mq"} THEN 1 ELSE 0)
rq_clock(cpu) == sched_ktime_clock
task_running(cpu, p) == curr[cpu] = p
task_on_rq_queued(p) == on_rq[p] = "queued"
rd_overload == \E c \in Cpus : nr_running(c) > 1 \/ misfit_task_load[c] # 0

is_reserved(cpu) == reserved[cpu]
mark_reserved(res, cpu) == [res EXCEPT ![cpu] = TRUE]
clear_reserved(res, cpu) == [res EXCEPT ![cpu] = FALSE]

\* deactivate_task / activate_task of the single-queue scheduling class
deactivate_task(q, cpu, p) == [q EXCEPT ![cpu] = SeqRemove(q[cpu], p)]
\* an enqueue that loses the task
activate_task_lost(q, cpu, p) == q
activate_task(q, cpu, p) == [q EXCEPT ![cpu] = Append(q[cpu], p)]

(* ---------------------------------------------------------------------- *)
(* Busiest-source selectors, over a snapshot s of the per-cpu statistics   *)
(* ---------------------------------------------------------------------- *)
sched_capacity_margin_up == 1078
cpu_overutilized(s, i) == capacity_orig_of(i) * 1024 < s.util[i] * sched_capacity_margin_up

\* a gate that compares the queue lengths only
cluster_not_loaded_by_nr(total_nr, total_cpus, total_util, total_capacity) ==
    total_nr <= total_cpus

\* the aggregate gate shared by the two cross-tier policies
cluster_not_loaded(total_nr, total_cpus, total_util, total_capacity) ==
    total_nr <= total_cpus \/ total_util * 1280 < total_capacity * 1024

\* a scan that does not ask for two queued tasks
RECURSIVE similar_cap_loop_any_nr(_, _, _, _)
similar_cap_loop_any_nr(s, cpus, busiest_cpu, busiest_util) ==
    IF cpus = <<>> THEN busiest_cpu
    ELSE LET i == Head(cpus) IN
         IF s.util[i] < busiest_util
         THEN similar_cap_loop_any_nr(s, Tail(cpus), busiest_cpu, busiest_util)
         ELSE similar_cap_loop_any_nr(s, Tail(cpus), i, s.util[i])

\* lines 323-337: the scan of the candidates in mask order
RECURSIVE similar_cap_loop(_, _, _, _)
similar_cap_loop(s, cpus, busiest_cpu, busiest_util) ==
    IF cpus = <<>> THEN busiest_cpu
    ELSE LET i == Head(cpus) IN
         IF s.nr[i] < 2 THEN similar_cap_loop(s, Tail(cpus), busiest_cpu, busiest_util)
         ELSE IF s.util[i] < busiest_util
              THEN similar_cap_loop(s, Tail(cpus), busiest_cpu, busiest_util)
         ELSE similar_cap_loop(s, Tail(cpus), i, s.util[i])

\* a peer-tier selector that scans every cpu instead of the candidate set
similar_cap_scans_all_cpus(s, dst_cpu, src_mask) ==
    similar_cap_loop(s, for_each_cpu(Cpus), NoCpu, 0)

walt_lb_find_busiest_similar_cap_cpu(s, dst_cpu, src_mask) ==
    similar_cap_loop(s, for_each_cpu(src_mask), NoCpu, 0)

\* acc: the loop's locals busiest_cpu, busiest_util and the four totals
LoopInit == [busiest_cpu |-> NoCpu, busiest_util |-> 0, total_cpus |-> 0,
             total_util |-> 0, total_capacity |-> 0, total_nr |-> 0,
             busy_nr_big_tasks |-> 0]
AddTotals(s, i, acc) ==
    [acc EXCEPT !.total_cpus = @ + 1, !.total_util = @ + s.util[i],
                !.total_capacity = @ + capacity_orig_of(i),
                !.total_nr = @ + s.nr[i]]

RECURSIVE higher_cap_loop(_, _, _)
higher_cap_loop(s, cpus, acc) ==
    IF cpus = <<>> THEN acc
    ELSE LET i == Head(cpus)
             tot == AddTotals(s, i, acc)
         IN IF ~s.active[i] THEN higher_cap_loop(s, Tail(cpus), acc)
            ELSE IF s.nr[i] < 2 THEN higher_cap_loop(s, Tail(cpus), tot)
            ELSE IF s.nr[i] = 2 /\ s.curr_util[i] < SMALL_TASK_THRESHOLD
                 THEN higher_cap_loop(s, Tail(cpus), tot)
            ELSE IF ~s.rot /\ ~cpu_overutilized(s, i)
                 THEN higher_cap_loop(s, Tail(cpus), tot)
            ELSE IF s.util[i] < acc.busiest_util
                 THEN higher_cap_loop(s, Tail(cpus), tot)
            ELSE higher_cap_loop(s, Tail(cpus),
                     [tot EXCEPT !.busiest_cpu = i, !.busiest_util = s.util[i]])

walt_lb_find_busiest_higher_cap_cpu(s, dst_cpu, src_mask) ==
    LET r == higher_cap_loop(s, for_each_cpu(src_mask), LoopInit)
    IN IF ~s.rot /\ cluster_not_loaded(r.total_nr, r.total_cpus, r.total_util,
                                       r.total_capacity)
       THEN NoCpu ELSE r.busiest_cpu

\* a scan that takes candidates that are not overutilized
RECURSIVE lower_cap_loop_any_util(_, _, _)
lower_cap_loop_any_util(s, cpus, acc) ==
    IF cpus = <<>> THEN acc
    ELSE LET i == Head(cpus)
             tot == AddTotals(s, i, acc)
         IN IF ~s.active[i] THEN lower_cap_loop_any_util(s, Tail(cpus), acc)
            ELSE IF s.ab[i] THEN lower_cap_loop_any_util(s, Tail(cpus), tot)
            ELSE IF s.nr[i] < 2 /\ s.big[i] = 0
                 THEN lower_cap_loop_any_util(s, Tail(cpus), tot)
            ELSE IF s.util[i] < acc.busiest_util
                 THEN lower_cap_loop_any_util(s, Tail(cpus), tot)
            ELSE lower_cap_loop_any_util(s, Tail(cpus),
                     [tot EXCEPT !.busiest_cpu = i, !.busiest_util = s.util[i],
                                 !.busy_nr_big_tasks = s.big[i]])

\* lines 421-455: the scan of the candidates in mask order
RECURSIVE lower_cap_loop(_, _, _)
lower_cap_loop(s, cpus, acc) ==
    IF cpus = <<>> THEN acc
    ELSE LET i == Head(cpus)
             tot == AddTotals(s, i, acc)
         IN IF ~s.active[i] THEN lower_cap_loop(s, Tail(cpus), acc)
            ELSE IF s.ab[i] THEN lower_cap_loop(s, Tail(cpus), tot)
            ELSE IF s.nr[i] < 2 /\ s.big[i] = 0
                 THEN lower_cap_loop(s, Tail(cpus), tot)
            ELSE IF ~s.rot /\ ~cpu_overutilized(s, i)
                 THEN lower_cap_loop(s, Tail(cpus), tot)
            ELSE IF s.util[i] < acc.busiest_util
                 THEN lower_cap_loop(s, Tail(cpus), tot)
            ELSE lower_cap_loop(s, Tail(cpus),
                     [tot EXCEPT !.busiest_cpu = i, !.busiest_util = s.util[i],
                                 !.busy_nr_big_tasks = s.big[i]])

walt_lb_find_busiest_lower_cap_cpu(s, dst_cpu, src_mask) ==
    LET r == lower_cap_loop(s, for_each_cpu(src_mask), LoopInit)
    IN IF ~s.rot /\ r.busy_nr_big_tasks = 0
          /\ cluster_not_loaded(r.total_nr, r.total_cpus, r.total_util,
                                r.total_capacity)
       THEN NoCpu ELSE r.busiest_cpu

cpumask_first(src_mask) == CHOOSE c \in src_mask : \A o \in src_mask : c <= o

walt_lb_find_busiest_cpu(s, dst_cpu, src_mask) ==
    LET fsrc_cpu == cpumask_first(src_mask) IN
    IF capacity_orig_of(dst_cpu) = capacity_orig_of(fsrc_cpu)
    THEN walt_lb_find_busiest_similar_cap_cpu(s, dst_cpu, src_mask)
    ELSE IF capacity_orig_of(dst_cpu) < capacity_orig_of(fsrc_cpu)
    THEN walt_lb_find_busiest_lower_cap_cpu(s, dst_cpu, src_mask)
    ELSE walt_lb_find_busiest_higher_cap_cpu(s, dst_cpu, src_mask)

\* the statistics the selectors read; cpu_util comes from the WALT window
\* statistics, outside the balancer, and is an input of the scan
UtilLevels == {100, 390, 400, 1000}
UtilInputs == {u \in [Cpus -> UtilLevels] : \A c \in Cpus : u[c] <= capacity_orig_of(c)}
nr_big_tasks(cpu) == Cardinality({i \in 1 .. Len(cfs_tasks[cpu]) : task_misfit(cfs_tasks[cpu][i])})
Snapshot(util) ==
    [nr |-> [c \in Cpus |-> h_nr_running(c)], util |-> util,
     active |-> cpu_active, ab |-> active_balance,
     big |-> [c \in Cpus |-> nr_big_tasks(c)],
     curr_util |-> [c \in Cpus |-> task_util(curr[c])],
     rot |-> walt_rotation_enabled]

\* a scan that takes the clusters of the row from its end
RECURSIVE newidle_scan_backwards(_, _, _)
newidle_scan_backwards(s, this_cpu, cluster) ==
    LET busy_cpu == walt_lb_find_busiest_cpu(s, this_cpu,
                        cpu_array(cluster_id(this_cpu), num_sched_clusters - 1 - cluster))
    IN IF busy_cpu # NoCpu \/ nr_running(this_cpu) > 0 THEN busy_cpu
       ELSE IF cluster + 1 < num_sched_clusters
            THEN newidle_scan_backwards(s, this_cpu, cluster + 1)
       ELSE busy_cpu

\* the do-while scan of walt_newidle_balance over the clusters
RECURSIVE newidle_scan(_, _, _)
newidle_scan(s, this_cpu, cluster) ==
    LET busy_cpu == walt_lb_find_busiest_cpu(s, this_cpu,
                        cpu_array(cluster_id(this_cpu), cluster))
    IN IF busy_cpu # NoCpu \/ nr_running(this_cpu) > 0 THEN busy_cpu
       ELSE IF cluster + 1 < num_sched_clusters
            THEN newidle_scan(s, this_cpu, cluster + 1)
       ELSE busy_cpu

(* ---------------------------------------------------------------------- *)
(* Initial state                                                           *)
(* ---------------------------------------------------------------------- *)
\* where the tasks start: task 1 on cpu 0, the others on any cpu their
\* affinity allows; a cpu with queued tasks runs one of them
Placements == {pl \in [Tasks -> Cpus] : pl[1] = 0 /\ \A p \in Tasks : pl[p] \in cpus_ptr(p)}

RECURSIVE QueueOf(_, _, _)
QueueOf(pl, cpu, ps) ==
    IF ps = {} THEN <<>>
    ELSE LET lo == CHOOSE p \in ps : \A o \in ps : p <= o
         IN (IF pl[lo] = cpu THEN <<lo>> ELSE <<>>) \o QueueOf(pl, cpu, ps \ {lo})

InitQueues ==
    /\ \E pl \in Placements :
          /\ task_cpu = pl
          /\ cfs_tasks = [c \in Cpus |-> QueueOf(pl, c, Tasks)]
    /\ curr \in [Cpus -> Tasks \cup {NoTask}]
    /\ \A c \in Cpus : IF cfs_tasks[c] = <<>> THEN curr[c] = NoTask
                        ELSE curr[c] # NoTask /\ InQueue(curr[c], c)
    /\ on_rq = [p \in Tasks |-> "queued"]
    /\ last_enqueued_ts = [p \in Tasks |-> 0]
    /\ lock = [c \in Cpus |-> NoCpu]
    /\ walt_lb_migration_lock = NoCpu
    /\ active_balance = [c \in Cpus |-> FALSE]
    /\ push_cpu = [c \in Cpus |-> 0]
    /\ push_task = [c \in Cpus |-> NoTask]
    /\ reserved = [c \in Cpus |-> FALSE]
    /\ misfit_task_load = [c \in Cpus |-> IF curr[c] # NoTask /\ task_misfit(curr[c]) THEN 1 ELSE 0]
    /\ idle_stamp = [c \in Cpus |-> 0]
    /\ cpu_active = [c \in Cpus |-> TRUE]
    /\ stopper_enabled = [c \in Cpus |-> TRUE]
    /\ walt_rotation_enabled = FALSE
    /\ active_balance_work = [c \in Cpus |-> FALSE]
    /\ walt_lb_rotate_works = [c \in Cpus |-> NoWork]
    /\ pc = [c \in Cpus |-> "idle"]
    /\ local = [c \in Cpus |-> NoLocal]

\* no selector call is under test
NoSel == [phase |-> "none"]

Init == InitQueues /\ ops = MaxOps /\ sel = NoSel

(* ---------------------------------------------------------------------- *)
(* Task Migration Primitive: walt_detach_task / walt_attach_task           *)
(* ---------------------------------------------------------------------- *)
\* a detach that forgets the dequeue of line 15
DetachKeepsQueued(c, src, dst, p, kind) ==
    /\ cfs_tasks' = cfs_tasks
    /\ on_rq' = [on_rq EXCEPT ![p] = "migrating"]
    /\ lock' = [lock EXCEPT ![src] = c]
    /\ pc' = [pc EXCEPT ![c] = "dlb"]
    /\ local' = [local EXCEPT ![c] = [kind |-> kind, src |-> src, dst |-> dst,
                                      p |-> p, pulled |-> 0]]

\* walt_detach_task, line 15: the caller holds src's lock; p leaves src's queue
DetachDeactivate(c, src, dst, p, kind) ==
    /\ cfs_tasks' = deactivate_task(cfs_tasks, src, p)
    /\ on_rq' = [on_rq EXCEPT ![p] = "migrating"]
    /\ lock' = [lock EXCEPT ![src] = c]
    /\ pc' = [pc EXCEPT ![c] = "dlb"]
    /\ local' = [local EXCEPT ![c] = [kind |-> kind, src |-> src, dst |-> dst,
                                      p |-> p, pulled |-> 0]]

\* an out_unlock that leaves the destination reserved
am_out_unlock_keeps_reserved(busiest_cpu) ==
    /\ active_balance' = [active_balance EXCEPT ![busiest_cpu] = FALSE]
    /\ push_task' = [push_task EXCEPT ![busiest_cpu] = NoTask]
    /\ UNCHANGED <<push_cpu, reserved>>

\* out_unlock of walt_lb_active_migration, lines 62-66, under the source lock
am_out_unlock(busiest_cpu) ==
    /\ active_balance' = [active_balance EXCEPT ![busiest_cpu] = FALSE]
    /\ reserved' = clear_reserved(reserved, push_cpu[busiest_cpu])
    /\ push_task' = [push_task EXCEPT ![busiest_cpu] = NoTask]
    /\ UNCHANGED push_cpu

\* what the caller of walt_detach_task does between its return and the
\* release of the source lock: the worker's out_unlock block clears the
\* request (lines 62-66); the pull and the hook do nothing more
CallerTail(c) ==
    IF local[c].kind = "am"
    THEN am_out_unlock(local[c].src)
    ELSE UNCHANGED <<active_balance, reserved, push_task, push_cpu>>

\* a caller that keeps the source lock after the detach
UnlockSrcNever(lk, c) == [lk EXCEPT ![local[c].src] = c]

\* the source lock as the caller leaves it after the detach: released
\* (lines 67, 291, and rq_unlock in move_queued_task)
UnlockSrcAfterDetach(lk, c) == [lk EXCEPT ![local[c].src] = NoCpu]

\* double_lock_balance returns, line 16: the source and the destination
\* lock are both held
DlbBoth(c) ==
    /\ lock' = [lock EXCEPT ![local[c].src] = c, ![local[c].dst] = c]
    /\ pc' = [pc EXCEPT ![c] = "dlb_both"]
    /\ UNCHANGED <<sel, rqvars, curr, walt_lb_migration_lock, abvars, reserved,
                   misfit_task_load, idle_stamp, envvars, active_balance_work,
                   walt_lb_rotate_works, local, ops>>

\* lines 17-20 with both locks held, then the caller up to its unlock
DetachFinish(c) ==
    LET l == local[c] IN
    /\ pc[c] = "dlb_both"
    /\ task_cpu' = [task_cpu EXCEPT ![l.p] = l.dst]
    /\ lock' = UnlockSrcAfterDetach([lock EXCEPT ![l.dst] = NoCpu], c)
    /\ CallerTail(c)
    /\ pc' = [pc EXCEPT ![c] = "attach"]
    /\ UNCHANGED <<sel, cfs_tasks, on_rq, last_enqueued_ts, curr, walt_lb_migration_lock,
                   misfit_task_load, idle_stamp, envvars, active_balance_work,
                   walt_lb_rotate_works, local, ops>>

\* double_lock_balance(src_rq, dst_rq): the destination lock is free
DlbTry(c) ==
    /\ pc[c] = "dlb"
    /\ lock[local[c].dst] = NoCpu
    /\ DlbBoth(c)

\* double_lock_balance: the source lock is dropped to take both in order
DlbDrop(c) ==
    /\ pc[c] = "dlb"
    /\ lock' = [lock EXCEPT ![local[c].src] = NoCpu]
    /\ pc' = [pc EXCEPT ![c] = "dlb_lo"]
    /\ UNCHANGED <<sel, rqvars, curr, walt_lb_migration_lock, abvars, reserved,
                   misfit_task_load, idle_stamp, envvars, active_balance_work,
                   walt_lb_rotate_works, local, ops>>

\* a double_lock_balance that waits for the destination with src held
\* whatever the order of the two locks
DlbWaitAnyOrder(c) ==
    /\ pc[c] = "dlb"
    /\ lock[local[c].dst] # NoCpu
    /\ pc' = [pc EXCEPT ![c] = "dlb_wait"]
    /\ UNCHANGED <<sel, rqvars, curr, lock, walt_lb_migration_lock, abvars, reserved,
                   misfit_task_load, idle_stamp, envvars, active_balance_work,
                   walt_lb_rotate_works, local, ops>>

\* double_lock_balance without CONFIG_PREEMPTION: the trylock failed and
\* the destination is the higher lock, so it is waited for with src held
DlbWait(c) ==
    /\ pc[c] = "dlb"
    /\ local[c].src < local[c].dst
    /\ lock[local[c].dst] # NoCpu
    /\ pc' = [pc EXCEPT ![c] = "dlb_wait"]
    /\ UNCHANGED <<sel, rqvars, curr, lock, walt_lb_migration_lock, abvars, reserved,
                   misfit_task_load, idle_stamp, envvars, active_balance_work,
                   walt_lb_rotate_works, local, ops>>

DlbWaitGot(c) ==
    /\ pc[c] = "dlb_wait"
    /\ lock[local[c].dst] = NoCpu
    /\ DlbBoth(c)

DlbLo(c) ==
    LET lo == Min2(local[c].src, local[c].dst) IN
    /\ pc[c] = "dlb_lo"
    /\ lock[lo] = NoCpu
    /\ lock' = [lock EXCEPT ![lo] = c]
    /\ pc' = [pc EXCEPT ![c] = "dlb_hi"]
    /\ UNCHANGED <<sel, rqvars, curr, walt_lb_migration_lock, abvars, reserved,
                   misfit_task_load, idle_stamp, envvars, active_balance_work,
                   walt_lb_rotate_works, local, ops>>

DlbHi(c) ==
    LET hi == Max2(local[c].src, local[c].dst) IN
    /\ pc[c] = "dlb_hi"
    /\ lock[hi] = NoCpu
    /\ DlbBoth(c)

\* where the caller continues after its attach: the pull returns 1 to
\* walt_newidle_balance, the worker and the hook's caller finish
AfterAttach(kind) == IF kind = "pull" THEN "ni_out" ELSE "put"

\* an attach that does not take the destination lock
AttachWithoutLock(c) ==
    LET l == local[c] IN
    /\ pc[c] = "attach"
    /\ cfs_tasks' = activate_task(cfs_tasks, l.dst, l.p)
    /\ on_rq' = [on_rq EXCEPT ![l.p] = "queued"]
    /\ last_enqueued_ts' = [last_enqueued_ts EXCEPT ![l.p] = Now]
    /\ local' = [local EXCEPT ![c].pulled = 1]
    /\ pc' = [pc EXCEPT ![c] = AfterAttach(l.kind)]
    /\ UNCHANGED <<sel, task_cpu, curr, lock, walt_lb_migration_lock, abvars, reserved,
                   misfit_task_load, idle_stamp, envvars, active_balance_work,
                   walt_lb_rotate_works, ops>>

\* walt_attach_task under the destination lock (lines 69-75, 308-310, and
\* the tail of move_queued_task), then the caller's return
Attach(c) ==
    LET l == local[c] IN
    /\ pc[c] = "attach"
    /\ lock[l.dst] = NoCpu
    /\ cfs_tasks' = activate_task(cfs_tasks, l.dst, l.p)
    /\ on_rq' = [on_rq EXCEPT ![l.p] = "queued"]
    /\ last_enqueued_ts' = [last_enqueued_ts EXCEPT ![l.p] = Now]
    /\ local' = [local EXCEPT ![c].pulled = 1]
    /\ pc' = [pc EXCEPT ![c] = AfterAttach(l.kind)]
    /\ UNCHANGED <<sel, task_cpu, curr, lock, walt_lb_migration_lock, abvars, reserved,
                   misfit_task_load, idle_stamp, envvars, active_balance_work,
                   walt_lb_rotate_works, ops>>

(* ---------------------------------------------------------------------- *)
(* Pull Operation: walt_lb_pull_tasks                                      *)
(* ---------------------------------------------------------------------- *)
_walt_can_migrate_task(p, dst_cpu, to_lower) ==
    /\ ~(to_lower /\ in_iowait(p))
    /\ ~(to_lower /\ strict_max_boost(p))
    /\ push_task[task_cpu[p]] # p

\* a test that does not compare the capacities
need_active_lb_any_capacity(p, dst_cpu, src_cpu) ==
    /\ ~active_balance[src_cpu]
    /\ task_misfit(p)

need_active_lb(p, dst_cpu, src_cpu) ==
    /\ ~active_balance[src_cpu]
    /\ capacity_orig_of(dst_cpu) > capacity_orig_of(src_cpu)
    /\ task_misfit(p)

\* a scan that takes the first eligible task whether it runs or not
RECURSIVE pull_scan_takes_running(_, _, _, _)
pull_scan_takes_running(src_cpu, dst_cpu, to_lower, i) ==
    IF i = 0 THEN [p |-> NoTask, active_balance |-> FALSE]
    ELSE LET p == cfs_tasks[src_cpu][i] IN
         IF dst_cpu \notin cpus_ptr(p)
         THEN pull_scan_takes_running(src_cpu, dst_cpu, to_lower, i - 1)
         ELSE IF ~_walt_can_migrate_task(p, dst_cpu, to_lower)
         THEN pull_scan_takes_running(src_cpu, dst_cpu, to_lower, i - 1)
         ELSE [p |-> p, active_balance |-> FALSE]

\* the list_for_each_entry_reverse loop, lines 261-281, from position i of
\* the source queue towards its head: the task it stops at, and whether it
\* stops to arm an active migration
RECURSIVE pull_scan(_, _, _, _)
pull_scan(src_cpu, dst_cpu, to_lower, i) ==
    IF i = 0 THEN [p |-> NoTask, active_balance |-> FALSE]
    ELSE LET p == cfs_tasks[src_cpu][i] IN
         IF dst_cpu \notin cpus_ptr(p)
         THEN pull_scan(src_cpu, dst_cpu, to_lower, i - 1)
         ELSE IF ~_walt_can_migrate_task(p, dst_cpu, to_lower)
         THEN pull_scan(src_cpu, dst_cpu, to_lower, i - 1)
         ELSE IF task_running(src_cpu, p)
         THEN IF need_active_lb(p, dst_cpu, src_cpu)
              THEN [p |-> p, active_balance |-> TRUE]
              ELSE pull_scan(src_cpu, dst_cpu, to_lower, i - 1)
         ELSE [p |-> p, active_balance |-> FALSE]

\* stop_one_cpu_nowait: the work is queued unless the stopper is disabled
stop_one_cpu_nowait(work, cpu) ==
    IF stopper_enabled[cpu] THEN [work EXCEPT ![cpu] = TRUE] ELSE work

\* lines 256-291: the source lock is taken, the queue scanned, and either a
\* waiting task detached, or an active migration armed, or nothing found
PullLockSrc(c) ==
    LET src == local[c].src
        dst == local[c].dst
        to_lower == capacity_orig_of(dst) < capacity_orig_of(src)
        r == pull_scan(src, dst, to_lower, Len(cfs_tasks[src]))
    IN
    /\ pc[c] = "pull_src"
    /\ lock[src] = NoCpu
    /\ IF r.active_balance
       THEN /\ active_balance' = [active_balance EXCEPT ![src] = TRUE]
            /\ push_cpu' = [push_cpu EXCEPT ![src] = dst]
            /\ push_task' = [push_task EXCEPT ![src] = r.p]
            /\ reserved' = mark_reserved(reserved, dst)
            /\ pc' = [pc EXCEPT ![c] = "pull_stop"]
            /\ local' = [local EXCEPT ![c].p = r.p]
            /\ UNCHANGED <<cfs_tasks, on_rq, lock>>
       ELSE IF r.p # NoTask
       THEN /\ DetachDeactivate(c, src, dst, r.p, "pull")
            /\ UNCHANGED <<abvars, reserved>>
       ELSE /\ pc' = [pc EXCEPT ![c] = "ni_out"]
            /\ UNCHANGED <<cfs_tasks, on_rq, lock, abvars, reserved, local>>
    /\ UNCHANGED <<sel, task_cpu, last_enqueued_ts, curr, walt_lb_migration_lock,
                   misfit_task_load, idle_stamp, envvars, active_balance_work,
                   walt_lb_rotate_works, ops>>

\* lines 297-303: the worker is handed to the source cpu's stopper
PullStop(c) ==
    /\ pc[c] = "pull_stop"
    /\ active_balance_work' = stop_one_cpu_nowait(active_balance_work, local[c].src)
    /\ pc' = [pc EXCEPT ![c] = "ni_out"]
    /\ UNCHANGED <<sel, rqvars, curr, lock, walt_lb_migration_lock, abvars, reserved,
                   misfit_task_load, idle_stamp, envvars, walt_lb_rotate_works, local, ops>>

(* ---------------------------------------------------------------------- *)
(* walt_newidle_balance                                                    *)
(* ---------------------------------------------------------------------- *)
\* lines 545-575, entered with this_rq's lock held by the scheduler when the
\* cpu has nothing left to run, neither a fair task nor a queued stopper
NewidleStart(c) ==
    /\ pc[c] = "idle"
    /\ stopper_enabled[c]
    /\ ops > 0
    /\ lock[c] = NoCpu
    /\ cfs_tasks[c] = <<>>
    /\ curr[c] = NoTask
    /\ nr_running(c) = 0
    /\ ops' = ops - 1
    /\ misfit_task_load' = [misfit_task_load EXCEPT ![c] = 0]
    /\ idle_stamp' = [idle_stamp EXCEPT ![c] = rq_clock(c)]
    /\ IF ~cpu_active[c] \/ ~rd_overload
       THEN UNCHANGED pc
       ELSE pc' = [pc EXCEPT ![c] = "ni_scan"]
    /\ UNCHANGED <<sel, rqvars, curr, lock, walt_lb_migration_lock, abvars, reserved,
                   envvars, active_balance_work, walt_lb_rotate_works, local>>

\* lines 583-597: the cluster scan and the sanity checks before the pull
NewidleScan(c) ==
    /\ pc[c] = "ni_scan"
    /\ \E util \in UtilInputs :
          LET busy_cpu == newidle_scan(Snapshot(util), c, 0) IN
          IF busy_cpu = NoCpu \/ nr_running(c) > 0 \/ busy_cpu = c
          THEN /\ pc' = [pc EXCEPT ![c] = "ni_out"]
               /\ local' = [local EXCEPT ![c] = NoLocal]
          ELSE /\ pc' = [pc EXCEPT ![c] = "pull_src"]
               /\ local' = [local EXCEPT ![c] = [kind |-> "pull", src |-> busy_cpu,
                                dst |-> c, p |-> NoTask, pulled |-> 0]]
    /\ UNCHANGED <<sel, rqvars, curr, lock, walt_lb_migration_lock, abvars, reserved,
                   misfit_task_load, idle_stamp, envvars, active_balance_work,
                   walt_lb_rotate_works, ops>>

\* lines 601-606: *pulled_task as reported, from the return of
\* walt_lb_pull_tasks and the queue of this_rq
newidle_result(cpu, pulled_task) ==
    IF nr_running(cpu) # h_nr_running(cpu) THEN -1
    ELSE IF h_nr_running(cpu) # 0 /\ pulled_task = 0 THEN 1
    ELSE pulled_task

\* a return that leaves the idle stamp as it was marked on entry
NewidleOutKeepsStamp(c) ==
    LET pulled_task == newidle_result(c, local[c].pulled) IN
    /\ pc[c] = "ni_out"
    /\ lock[c] = NoCpu
    /\ lock' = [lock EXCEPT ![c] = c]
    /\ pc' = [pc EXCEPT ![c] = "ni_ret"]
    /\ local' = [local EXCEPT ![c] = [NoLocal EXCEPT !.kind = "newidle",
                                                      !.pulled = pulled_task]]
    /\ UNCHANGED <<sel, rqvars, curr, walt_lb_migration_lock, abvars, reserved,
                   misfit_task_load, idle_stamp, envvars, active_balance_work,
                   walt_lb_rotate_works, ops>>

\* lines 599-612: this_rq's lock is taken again, the result is computed
\* from the queue as it is now and the idle stamp reset if it is not zero
NewidleOut(c) ==
    LET pulled_task == newidle_result(c, local[c].pulled) IN
    /\ pc[c] = "ni_out"
    /\ lock[c] = NoCpu
    /\ lock' = [lock EXCEPT ![c] = c]
    /\ idle_stamp' = IF pulled_task # 0 THEN [idle_stamp EXCEPT ![c] = 0] ELSE idle_stamp
    /\ pc' = [pc EXCEPT ![c] = "ni_ret"]
    /\ local' = [local EXCEPT ![c] = [NoLocal EXCEPT !.kind = "newidle",
                                                      !.pulled = pulled_task]]
    /\ UNCHANGED <<sel, rqvars, curr, walt_lb_migration_lock, abvars, reserved,
                   misfit_task_load, envvars, active_balance_work,
                   walt_lb_rotate_works, ops>>

\* line 615: the function returns to the scheduler, which goes on with
\* this_rq's lock held and releases it after its pick
NewidleReturn(c) ==
    /\ pc[c] = "ni_ret"
    /\ lock' = [lock EXCEPT ![c] = NoCpu]
    /\ pc' = [pc EXCEPT ![c] = "idle"]
    /\ local' = [local EXCEPT ![c] = NoLocal]
    /\ UNCHANGED <<sel, rqvars, curr, walt_lb_migration_lock, abvars, reserved,
                   misfit_task_load, idle_stamp, envvars, active_balance_work,
                   walt_lb_rotate_works, ops>>

(* ---------------------------------------------------------------------- *)
(* Active-Migration Worker: walt_lb_active_migration                       *)
(* ---------------------------------------------------------------------- *)
raw_smp_processor_id(c) == c

\* lines 31-37: the stopper of the source cpu starts the queued worker
WorkerStart(c) ==
    /\ pc[c] = "idle"
    /\ active_balance_work[c]
    /\ active_balance_work' = [active_balance_work EXCEPT ![c] = FALSE]
    /\ curr' = [curr EXCEPT ![c] = NoTask]
    /\ pc' = [pc EXCEPT ![c] = "am_lock"]
    /\ local' = [local EXCEPT ![c] = [kind |-> "am", src |-> c, dst |-> push_cpu[c],
                                      p |-> push_task[c], pulled |-> 0]]
    /\ UNCHANGED <<sel, rqvars, lock, walt_lb_migration_lock, abvars, reserved,
                   misfit_task_load, idle_stamp, envvars, walt_lb_rotate_works, ops>>

\* a revalidation that does not look at the destination
am_validate_ignores_target(busiest_cpu, target_cpu, p) ==
    /\ cpu_active[busiest_cpu]
    /\ busiest_cpu = raw_smp_processor_id(busiest_cpu)
    /\ active_balance[busiest_cpu]
    /\ nr_running(busiest_cpu) > 1
    /\ task_on_rq_queued(p)
    /\ task_state(p) = "TASK_RUNNING"
    /\ task_cpu[p] = busiest_cpu

\* a revalidation that wants a second task queued beside the push task
am_validate_wants_two_queued(busiest_cpu, target_cpu, p) ==
    /\ cpu_active[busiest_cpu] /\ cpu_active[target_cpu]
    /\ busiest_cpu = raw_smp_processor_id(busiest_cpu)
    /\ active_balance[busiest_cpu]
    /\ nr_running(busiest_cpu) > 2
    /\ task_on_rq_queued(p)
    /\ task_state(p) = "TASK_RUNNING"
    /\ task_cpu[p] = busiest_cpu
    /\ cpu_active[target_cpu]

\* the sanity checks of lines 42-57: TRUE when the push task is detached
am_validate(busiest_cpu, target_cpu, p) ==
    /\ cpu_active[busiest_cpu] /\ cpu_active[target_cpu]
    /\ busiest_cpu = raw_smp_processor_id(busiest_cpu)
    /\ active_balance[busiest_cpu]
    /\ nr_running(busiest_cpu) > 1
    /\ task_on_rq_queued(p)
    /\ task_state(p) = "TASK_RUNNING"
    /\ task_cpu[p] = busiest_cpu
    /\ cpu_active[target_cpu]

\* lines 39-67: under the source lock, revalidate and detach, or give up
WorkerLock(c) ==
    LET l == local[c] IN
    /\ pc[c] = "am_lock"
    /\ lock[c] = NoCpu
    /\ IF am_validate(c, l.dst, l.p)
       THEN /\ DetachDeactivate(c, c, l.dst, l.p, "am")
            /\ UNCHANGED <<abvars, reserved>>
       ELSE /\ am_out_unlock(c)
            /\ pc' = [pc EXCEPT ![c] = "put"]
            /\ UNCHANGED <<cfs_tasks, on_rq, lock, local>>
    /\ UNCHANGED <<sel, task_cpu, last_enqueued_ts, curr, walt_lb_migration_lock,
                   misfit_task_load, idle_stamp, envvars, active_balance_work,
                   walt_lb_rotate_works, ops>>

\* lines 76-79: the task reference is dropped and the worker returns 0; the
\* caller of the hook returns likewise. local.pulled is push_task_detached
WorkerDone(c) ==
    /\ pc[c] = "put"
    /\ pc' = [pc EXCEPT ![c] = "idle"]
    /\ local' = [local EXCEPT ![c] = NoLocal]
    /\ UNCHANGED <<sel, rqvars, curr, lock, walt_lb_migration_lock, abvars, reserved,
                   misfit_task_load, idle_stamp, envvars, active_balance_work,
                   walt_lb_rotate_works, ops>>

(* ---------------------------------------------------------------------- *)
(* walt_migrate_queued_task: the detach hook of move_queued_task           *)
(* ---------------------------------------------------------------------- *)
\* migration_cpu_stop on the task's cpu moves the queued task p to new_cpu
\* (an affinity change, a hotplug push); the hook detaches it, lines 671-675
MigrateQueuedTask(c, p, new_cpu) ==
    /\ pc[c] = "idle"
    /\ stopper_enabled[c]
    /\ ops > 0
    /\ task_cpu[p] = c /\ task_on_rq_queued(p)
    /\ new_cpu # c /\ new_cpu \in cpus_ptr(p) /\ cpu_active[new_cpu]
    /\ lock[c] = NoCpu
    /\ ops' = ops - 1
    /\ curr' = [curr EXCEPT ![c] = NoTask]
    /\ DetachDeactivate(c, c, new_cpu, p, "mq")
    /\ UNCHANGED <<sel, task_cpu, last_enqueued_ts, walt_lb_migration_lock, abvars,
                   reserved, misfit_task_load, idle_stamp, envvars, active_balance_work,
                   walt_lb_rotate_works>>

(* ---------------------------------------------------------------------- *)
(* Rotation Protocol: walt_lb_check_for_rotation, walt_lb_rotate_work_func *)
(* ---------------------------------------------------------------------- *)
MAX_PRIO == 140
stopper_running(cpu) == local[cpu].kind \in {"am", "mq"}
\* rq->curr->prio and the last_enqueued_ts of rq->curr; when no fair task
\* runs, rq->curr is the stopper thread or the idle task
curr_prio(cpu) ==
    IF curr[cpu] # NoTask THEN task_prio(curr[cpu])
    ELSE IF stopper_running(cpu) THEN MAX_RT_PRIO - 1 ELSE MAX_PRIO
curr_enqueue_ns(cpu) ==
    IF curr[cpu] # NoTask THEN enqueue_ns(curr[cpu])
    ELSE IF stopper_running(cpu) THEN sched_ktime_clock ELSE 0

\* a scan in which the last of several equally long waits wins
RECURSIVE deserved_loop_last_wins(_, _, _, _)
deserved_loop_last_wins(cpus, wc, max_wait, deserved_cpu) ==
    IF cpus = <<>> THEN deserved_cpu
    ELSE LET i == Head(cpus)
             wait == wc - curr_enqueue_ns(i)
         IN IF ~is_min_capacity_cpu(i) THEN deserved_cpu
            ELSE IF is_reserved(i)
                 THEN deserved_loop_last_wins(Tail(cpus), wc, max_wait, deserved_cpu)
            ELSE IF misfit_task_load[i] = 0
                 THEN deserved_loop_last_wins(Tail(cpus), wc, max_wait, deserved_cpu)
            ELSE IF wait >= max_wait THEN deserved_loop_last_wins(Tail(cpus), wc, wait, i)
            ELSE deserved_loop_last_wins(Tail(cpus), wc, max_wait, deserved_cpu)

\* lines 132-150: the min-capacity cpu whose running task waited longest
RECURSIVE deserved_loop(_, _, _, _)
deserved_loop(cpus, wc, max_wait, deserved_cpu) ==
    IF cpus = <<>> THEN deserved_cpu
    ELSE LET i == Head(cpus)
             wait == wc - curr_enqueue_ns(i)
         IN IF ~is_min_capacity_cpu(i) THEN deserved_cpu
            ELSE IF is_reserved(i) THEN deserved_loop(Tail(cpus), wc, max_wait, deserved_cpu)
            ELSE IF misfit_task_load[i] = 0
                 THEN deserved_loop(Tail(cpus), wc, max_wait, deserved_cpu)
            ELSE IF wait > max_wait THEN deserved_loop(Tail(cpus), wc, wait, i)
            ELSE deserved_loop(Tail(cpus), wc, max_wait, deserved_cpu)

\* a destination loop that does not skip the minimum-capacity cpus
RECURSIVE rotation_dst_any_tier(_, _, _, _)
rotation_dst_any_tier(cpus, wc, max_run, dst_cpu) ==
    IF cpus = <<>> THEN dst_cpu
    ELSE LET i == Head(cpus)
             run == wc - curr_enqueue_ns(i)
         IN IF is_reserved(i) THEN rotation_dst_any_tier(Tail(cpus), wc, max_run, dst_cpu)
            ELSE IF curr_prio(i) < MAX_RT_PRIO
                 THEN rotation_dst_any_tier(Tail(cpus), wc, max_run, dst_cpu)
            ELSE IF nr_running(i) > 1
                 THEN rotation_dst_any_tier(Tail(cpus), wc, max_run, dst_cpu)
            ELSE IF run < WALT_ROTATION_THRESHOLD_NS
                 THEN rotation_dst_any_tier(Tail(cpus), wc, max_run, dst_cpu)
            ELSE IF run > max_run THEN rotation_dst_any_tier(Tail(cpus), wc, run, i)
            ELSE rotation_dst_any_tier(Tail(cpus), wc, max_run, dst_cpu)

\* a destination loop that takes a task however short it has run
RECURSIVE rotation_dst_any_run(_, _, _, _)
rotation_dst_any_run(cpus, wc, max_run, dst_cpu) ==
    IF cpus = <<>> THEN dst_cpu
    ELSE LET i == Head(cpus)
             run == wc - curr_enqueue_ns(i)
         IN IF is_min_capacity_cpu(i) THEN rotation_dst_any_run(Tail(cpus), wc, max_run, dst_cpu)
            ELSE IF is_reserved(i) THEN rotation_dst_any_run(Tail(cpus), wc, max_run, dst_cpu)
            ELSE IF curr_prio(i) < MAX_RT_PRIO
                 THEN rotation_dst_any_run(Tail(cpus), wc, max_run, dst_cpu)
            ELSE IF nr_running(i) > 1
                 THEN rotation_dst_any_run(Tail(cpus), wc, max_run, dst_cpu)
            ELSE IF run > max_run THEN rotation_dst_any_run(Tail(cpus), wc, run, i)
            ELSE rotation_dst_any_run(Tail(cpus), wc, max_run, dst_cpu)

\* lines 155-180: the higher-capacity cpu whose lone task ran longest
RECURSIVE rotation_dst_loop(_, _, _, _)
rotation_dst_loop(cpus, wc, max_run, dst_cpu) ==
    IF cpus = <<>> THEN dst_cpu
    ELSE LET i == Head(cpus)
             run == wc - curr_enqueue_ns(i)
         IN IF is_min_capacity_cpu(i) THEN rotation_dst_loop(Tail(cpus), wc, max_run, dst_cpu)
            ELSE IF is_reserved(i) THEN rotation_dst_loop(Tail(cpus), wc, max_run, dst_cpu)
            ELSE IF curr_prio(i) < MAX_RT_PRIO
                 THEN rotation_dst_loop(Tail(cpus), wc, max_run, dst_cpu)
            ELSE IF nr_running(i) > 1
                 THEN rotation_dst_loop(Tail(cpus), wc, max_run, dst_cpu)
            ELSE IF run < WALT_ROTATION_THRESHOLD_NS
                 THEN rotation_dst_loop(Tail(cpus), wc, max_run, dst_cpu)
            ELSE IF run > max_run THEN rotation_dst_loop(Tail(cpus), wc, run, i)
            ELSE rotation_dst_loop(Tail(cpus), wc, max_run, dst_cpu)

\* lines 127-183: the destination of the rotation src_cpu may arm, or none
rotation_scan(src_cpu) ==
    LET wc == sched_ktime_clock IN
    IF ~is_min_capacity_cpu(src_cpu) THEN nr_cpu_ids
    ELSE IF deserved_loop(for_each_cpu(Cpus), wc, 0, nr_cpu_ids) # src_cpu THEN nr_cpu_ids
    ELSE rotation_dst_loop(for_each_cpu(Cpus), wc, 0, nr_cpu_ids)

\* the re-check of line 188-189 under both locks
rotation_recheck(src_cpu, dst_cpu) ==
    /\ curr[dst_cpu] # NoTask /\ curr_prio(dst_cpu) >= MAX_RT_PRIO
    /\ curr[src_cpu] # NoTask /\ curr_prio(src_cpu) >= MAX_RT_PRIO

\* double_rq_lock(src_rq, dst_rq): the lower lock first
RotLockLo(c) ==
    LET lo == Min2(local[c].src, local[c].dst) IN
    /\ pc[c] = "rot_lo"
    /\ lock[lo] = NoCpu
    /\ lock' = [lock EXCEPT ![lo] = c]
    /\ pc' = [pc EXCEPT ![c] = "rot_hi"]
    /\ UNCHANGED <<sel, rqvars, curr, walt_lb_migration_lock, abvars, reserved,
                   misfit_task_load, idle_stamp, envvars, active_balance_work,
                   walt_lb_rotate_works, local, ops>>

\* an arming that does not look at the running tasks again
RotLockHiNoRecheck(c) ==
    LET src == local[c].src
        dst == local[c].dst
        hi == Max2(src, dst)
    IN
    /\ pc[c] = "rot_hi"
    /\ lock[hi] = NoCpu
    /\ lock' = [lock EXCEPT ![Min2(src, dst)] = NoCpu]
    /\ reserved' = mark_reserved(mark_reserved(reserved, src), dst)
    /\ walt_lb_rotate_works' = [walt_lb_rotate_works EXCEPT ![src] =
           [@ EXCEPT !.src_task = curr[src], !.dst_task = curr[dst],
                     !.src_cpu = src, !.dst_cpu = dst]]
    /\ pc' = [pc EXCEPT ![c] = "rot_queue"]
    /\ UNCHANGED <<sel, rqvars, curr, abvars, misfit_task_load, idle_stamp, envvars,
                   active_balance_work, ops, walt_lb_migration_lock, local>>

\* lines 187-203: with both locks held the pair is re-checked, reserved and
\* recorded in the source cpu's work item; both locks are released
RotLockHi(c) ==
    LET src == local[c].src
        dst == local[c].dst
        hi == Max2(src, dst)
    IN
    /\ pc[c] = "rot_hi"
    /\ lock[hi] = NoCpu
    /\ lock' = [lock EXCEPT ![Min2(src, dst)] = NoCpu]
    /\ IF rotation_recheck(src, dst)
       THEN /\ reserved' = mark_reserved(mark_reserved(reserved, src), dst)
            /\ walt_lb_rotate_works' = [walt_lb_rotate_works EXCEPT ![src] =
                   [@ EXCEPT !.src_task = curr[src], !.dst_task = curr[dst],
                             !.src_cpu = src, !.dst_cpu = dst]]
            /\ pc' = [pc EXCEPT ![c] = "rot_queue"]
            /\ UNCHANGED <<walt_lb_migration_lock, local>>
       ELSE /\ walt_lb_migration_lock' = NoCpu
            /\ pc' = [pc EXCEPT ![c] = "idle"]
            /\ local' = [local EXCEPT ![c] = NoLocal]
            /\ UNCHANGED <<reserved, walt_lb_rotate_works>>
    /\ UNCHANGED <<sel, rqvars, curr, abvars, misfit_task_load, idle_stamp, envvars,
                   active_balance_work, ops>>

\* lines 205-206 and the out_unlock of walt_lb_tick, line 538
RotQueue(c) ==
    /\ pc[c] = "rot_queue"
    /\ walt_lb_rotate_works' = [walt_lb_rotate_works EXCEPT ![local[c].src].pending = TRUE]
    /\ walt_lb_migration_lock' = NoCpu
    /\ pc' = [pc EXCEPT ![c] = "idle"]
    /\ local' = [local EXCEPT ![c] = NoLocal]
    /\ UNCHANGED <<sel, rqvars, curr, lock, abvars, reserved, misfit_task_load, idle_stamp,
                   envvars, active_balance_work, ops>>

\* migrate_swap(cur, p, target_cpu, curr_cpu): the checks made before and
\* inside the two-cpu stop
swap_precheck(w) ==
    /\ w.src_cpu # w.dst_cpu
    /\ cpu_active[w.src_cpu] /\ cpu_active[w.dst_cpu]
    /\ w.dst_cpu \in cpus_ptr(w.src_task)
    /\ w.src_cpu \in cpus_ptr(w.dst_task)
    /\ stopper_enabled[w.src_cpu] /\ stopper_enabled[w.dst_cpu]
swap_owned(w) ==
    /\ task_cpu[w.dst_task] = w.dst_cpu
    /\ task_cpu[w.src_task] = w.src_cpu

\* __migrate_swap_task(p, cpu) on the queues q and owners tc
swap_queue(q, p, cpu) ==
    IF task_on_rq_queued(p) THEN activate_task(deactivate_task(q, task_cpu[p], p), cpu, p)
    ELSE q
swap_owner(tc, p, cpu) == IF task_on_rq_queued(p) THEN [tc EXCEPT ![p] = cpu] ELSE tc
swap_ts(ts, p) == IF task_on_rq_queued(p) THEN [ts EXCEPT ![p] = Now] ELSE ts

\* a work function that clears the source's reservation only
rotate_clear_src_only(w) == clear_reserved(reserved, w.src_cpu)

\* the two clear_reserved calls of lines 102-103
rotate_clear_reserved(w) == clear_reserved(clear_reserved(reserved, w.src_cpu), w.dst_cpu)

\* walt_lb_rotate_work_func up to the return of migrate_swap, line 97, run
\* by the kworker of the source cpu; the swap itself runs in the stoppers
\* of both cpus with both rq locks held
RotateSwap(c) ==
    LET w == walt_lb_rotate_works[c] IN
    /\ w.pending
    /\ w.ran = "no"
    /\ pc[c] = "idle"
    /\ IF swap_precheck(w)
       THEN /\ pc[w.dst_cpu] = "idle"
            /\ lock[w.src_cpu] = NoCpu /\ lock[w.dst_cpu] = NoCpu
            /\ curr' = [curr EXCEPT ![w.src_cpu] = NoTask, ![w.dst_cpu] = NoTask]
            /\ IF swap_owned(w)
               THEN /\ cfs_tasks' = swap_queue(swap_queue(cfs_tasks, w.src_task, w.dst_cpu),
                                               w.dst_task, w.src_cpu)
                    /\ task_cpu' = swap_owner(swap_owner(task_cpu, w.src_task, w.dst_cpu),
                                              w.dst_task, w.src_cpu)
                    /\ last_enqueued_ts' = swap_ts(swap_ts(last_enqueued_ts, w.src_task),
                                                   w.dst_task)
                    /\ walt_lb_rotate_works' = [walt_lb_rotate_works EXCEPT
                           ![c].pending = FALSE, ![c].ran = "swapped"]
               ELSE /\ UNCHANGED <<cfs_tasks, task_cpu, last_enqueued_ts>>
                    /\ walt_lb_rotate_works' = [walt_lb_rotate_works EXCEPT
                           ![c].pending = FALSE, ![c].ran = "skipped"]
       ELSE /\ UNCHANGED <<cfs_tasks, task_cpu, last_enqueued_ts, curr>>
            /\ walt_lb_rotate_works' = [walt_lb_rotate_works EXCEPT
                   ![c].pending = FALSE, ![c].ran = "skipped"]
    /\ UNCHANGED <<sel, on_rq, lock, walt_lb_migration_lock, abvars, reserved,
                   misfit_task_load, idle_stamp, envvars, active_balance_work, pc, local, ops>>

\* lines 99-103: the references are dropped and both reservations cleared;
\* the fields of an item that is neither queued again nor being queued are
\* dead
RotateClear(c) ==
    LET w == walt_lb_rotate_works[c] IN
    /\ w.ran # "no"
    /\ reserved' = rotate_clear_reserved(w)
    /\ walt_lb_rotate_works' = [walt_lb_rotate_works EXCEPT ![c] =
           IF w.pending \/ pc[c] = "rot_queue" THEN [w EXCEPT !.ran = "no"] ELSE NoWork]
    /\ UNCHANGED <<sel, rqvars, curr, lock, walt_lb_migration_lock, abvars,
                   misfit_task_load, idle_stamp, envvars, active_balance_work, pc, local, ops>>

(* ---------------------------------------------------------------------- *)
(* Tick Balancer: walt_lb_tick                                             *)
(* ---------------------------------------------------------------------- *)
\* cheap exits that do not look at the misfit load of the rq
tick_returns_without_misfit_test(c) ==
    \/ curr[c] = NoTask
    \/ task_state(curr[c]) # "TASK_RUNNING"
    \/ nr_cpus_allowed(curr[c]) = 1

\* lines 492-496: the cheap exits
tick_returns_early(c) ==
    \/ misfit_task_load[c] = 0
    \/ curr[c] = NoTask
    \/ task_state(curr[c]) # "TASK_RUNNING"
    \/ nr_cpus_allowed(curr[c]) = 1

TickStart(c) ==
    /\ pc[c] = "idle"
    /\ stopper_enabled[c]
    /\ ops > 0
    /\ ops' = ops - 1
    /\ IF tick_returns_early(c)
       THEN UNCHANGED <<pc, local>>
       ELSE /\ pc' = [pc EXCEPT ![c] = "tick_mig"]
            /\ local' = [local EXCEPT ![c] = [kind |-> "tick", src |-> c, dst |-> NoCpu,
                                              p |-> curr[c], pulled |-> 0]]
    /\ UNCHANGED <<sel, rqvars, curr, lock, walt_lb_migration_lock, abvars, reserved,
                   misfit_task_load, idle_stamp, envvars, active_balance_work,
                   walt_lb_rotate_works>>

\* walt_find_energy_efficient_cpu is outside the balancer: any active cpu
\* the task may run on, or none
EnergyEfficientCpus(p) == {cpu \in cpus_ptr(p) : cpu_active[cpu]} \cup {NoCpu}

\* a tick that asks for the best cpu whatever the rotation mode
TickMigLockIgnoresRotation(c) ==
    /\ pc[c] = "tick_mig"
    /\ walt_lb_migration_lock = NoCpu
    /\ \E new_cpu \in EnergyEfficientCpus(local[c].p) :
          /\ pc' = [pc EXCEPT ![c] = "tick_new"]
          /\ local' = [local EXCEPT ![c].dst = new_cpu]
          /\ walt_lb_migration_lock' = c
    /\ UNCHANGED <<sel, rqvars, curr, lock, abvars, reserved, misfit_task_load, idle_stamp,
                   envvars, active_balance_work, walt_lb_rotate_works, ops>>

\* lines 498-507: the decision lock is taken; rotation mode delegates to
\* walt_lb_check_for_rotation, otherwise the best cpu is asked for
TickMigLock(c) ==
    /\ pc[c] = "tick_mig"
    /\ walt_lb_migration_lock = NoCpu
    /\ IF walt_rotation_enabled
       THEN LET dst_cpu == rotation_scan(c) IN
            IF dst_cpu = nr_cpu_ids
            THEN /\ pc' = [pc EXCEPT ![c] = "idle"]
                 /\ local' = [local EXCEPT ![c] = NoLocal]
                 /\ UNCHANGED walt_lb_migration_lock
            ELSE /\ pc' = [pc EXCEPT ![c] = "rot_lo"]
                 /\ local' = [local EXCEPT ![c] = [kind |-> "rot", src |-> c,
                                  dst |-> dst_cpu, p |-> NoTask, pulled |-> 0]]
                 /\ walt_lb_migration_lock' = c
       ELSE \E new_cpu \in EnergyEfficientCpus(local[c].p) :
            /\ pc' = [pc EXCEPT ![c] = "tick_new"]
            /\ local' = [local EXCEPT ![c].dst = new_cpu]
            /\ walt_lb_migration_lock' = c
    /\ UNCHANGED <<sel, rqvars, curr, lock, abvars, reserved, misfit_task_load, idle_stamp,
                   envvars, active_balance_work, walt_lb_rotate_works, ops>>

\* a test of the answer that lets every cpu but the own one through
tick_keeps_cpu_unless_other(new_cpu, prev_cpu) == new_cpu < 0 \/ new_cpu = prev_cpu

\* line 509: no cpu was found, or one of the cluster the task is in
tick_keeps_cpu(new_cpu, prev_cpu) == new_cpu < 0 \/ same_cluster(new_cpu, prev_cpu)

\* lines 509-510: the answer is tested; out_unlock releases the decision lock
TickNewCpu(c) ==
    /\ pc[c] = "tick_new"
    /\ IF tick_keeps_cpu(local[c].dst, c)
       THEN /\ pc' = [pc EXCEPT ![c] = "idle"]
            /\ local' = [local EXCEPT ![c] = NoLocal]
            /\ walt_lb_migration_lock' = NoCpu
       ELSE /\ pc' = [pc EXCEPT ![c] = "tick_rq"]
            /\ UNCHANGED <<walt_lb_migration_lock, local>>
    /\ UNCHANGED <<sel, rqvars, curr, lock, abvars, reserved, misfit_task_load, idle_stamp,
                   envvars, active_balance_work, walt_lb_rotate_works, ops>>

\* a tick that records its request whether or not one is in progress
TickRqLockRearms(c) ==
    /\ pc[c] = "tick_rq"
    /\ lock[c] = NoCpu
    /\ active_balance' = [active_balance EXCEPT ![c] = TRUE]
    /\ push_cpu' = [push_cpu EXCEPT ![c] = local[c].dst]
    /\ push_task' = [push_task EXCEPT ![c] = local[c].p]
    /\ pc' = [pc EXCEPT ![c] = "tick_mark"]
    /\ UNCHANGED <<sel, rqvars, curr, lock, reserved, misfit_task_load, idle_stamp, envvars,
                   active_balance_work, walt_lb_rotate_works, ops,
                   walt_lb_migration_lock, local>>

\* lines 512-521: under the own rq lock the request is recorded, unless one
\* is already in progress
TickRqLock(c) ==
    /\ pc[c] = "tick_rq"
    /\ lock[c] = NoCpu
    /\ IF active_balance[c]
       THEN /\ walt_lb_migration_lock' = NoCpu
            /\ pc' = [pc EXCEPT ![c] = "idle"]
            /\ local' = [local EXCEPT ![c] = NoLocal]
            /\ UNCHANGED abvars
       ELSE /\ active_balance' = [active_balance EXCEPT ![c] = TRUE]
            /\ push_cpu' = [push_cpu EXCEPT ![c] = local[c].dst]
            /\ push_task' = [push_task EXCEPT ![c] = local[c].p]
            /\ pc' = [pc EXCEPT ![c] = "tick_mark"]
            /\ UNCHANGED <<walt_lb_migration_lock, local>>
    /\ UNCHANGED <<sel, rqvars, curr, lock, reserved, misfit_task_load, idle_stamp, envvars,
                   active_balance_work, walt_lb_rotate_works, ops>>

\* a tick that goes on to queue the worker with the decision lock held
TickMarkKeepsLock(c) ==
    /\ pc[c] = "tick_mark"
    /\ reserved' = mark_reserved(reserved, local[c].dst)
    /\ pc' = [pc EXCEPT ![c] = "tick_stop"]
    /\ UNCHANGED <<sel, rqvars, curr, lock, walt_lb_migration_lock, abvars,
                   misfit_task_load, idle_stamp, envvars, active_balance_work,
                   walt_lb_rotate_works, local, ops>>

\* lines 523-524
TickMark(c) ==
    /\ pc[c] = "tick_mark"
    /\ reserved' = mark_reserved(reserved, local[c].dst)
    /\ walt_lb_migration_lock' = NoCpu
    /\ pc' = [pc EXCEPT ![c] = "tick_stop"]
    /\ UNCHANGED <<sel, rqvars, curr, lock, abvars, misfit_task_load, idle_stamp, envvars,
                   active_balance_work, walt_lb_rotate_works, local, ops>>

\* lines 527-535
TickStop(c) ==
    /\ pc[c] = "tick_stop"
    /\ active_balance_work' = stop_one_cpu_nowait(active_balance_work, c)
    /\ reserved' = IF stopper_enabled[c] THEN reserved
                   ELSE clear_reserved(reserved, local[c].dst)
    /\ pc' = [pc EXCEPT ![c] = "idle"]
    /\ local' = [local EXCEPT ![c] = NoLocal]
    /\ UNCHANGED <<sel, rqvars, curr, lock, walt_lb_migration_lock, abvars,
                   misfit_task_load, idle_stamp, envvars, walt_lb_rotate_works, ops>>

(* ---------------------------------------------------------------------- *)
(* The collaborators: the scheduler's context switch, hotplug, the         *)
(* rotation-mode switch                                                    *)
(* ---------------------------------------------------------------------- *)
\* __schedule picks the next fair task of the cpu; a preemption counts as an
\* operation, the pick after the stopper or on an idle cpu does not
Schedule(c, next) ==
    /\ pc[c] = "idle"
    /\ stopper_enabled[c]
    /\ lock[c] = NoCpu
    /\ InQueue(next, c)
    /\ next # curr[c]
    /\ IF curr[c] = NoTask THEN UNCHANGED ops ELSE ops > 0 /\ ops' = ops - 1
    /\ curr' = [curr EXCEPT ![c] = next]
    /\ misfit_task_load' = [misfit_task_load EXCEPT ![c] = IF task_misfit(next) THEN 1 ELSE 0]
    /\ UNCHANGED <<sel, idle_stamp, rqvars, lock, walt_lb_migration_lock, abvars, reserved, envvars,
                   active_balance_work, walt_lb_rotate_works, pc, local>>

\* sched_cpu_deactivate: the cpu leaves cpu_active_mask
CpuDown(c) ==
    /\ cpu_active[c]
    /\ ops > 0
    /\ ops' = ops - 1
    /\ cpu_active' = [cpu_active EXCEPT ![c] = FALSE]
    /\ UNCHANGED <<sel, rqvars, curr, lock, walt_lb_migration_lock, abvars, reserved,
                   misfit_task_load, idle_stamp, stopper_enabled, walt_rotation_enabled,
                   active_balance_work, walt_lb_rotate_works, pc, local>>

\* take_cpu_down: once its tasks are pushed away the cpu parks its stopper
StopperPark(c) ==
    /\ ~cpu_active[c]
    /\ stopper_enabled[c]
    /\ pc[c] = "idle"
    /\ cfs_tasks[c] = <<>>
    /\ ~active_balance_work[c]
    /\ stopper_enabled' = [stopper_enabled EXCEPT ![c] = FALSE]
    /\ UNCHANGED <<sel, rqvars, curr, lock, walt_lb_migration_lock, abvars, reserved,
                   misfit_task_load, idle_stamp, cpu_active, walt_rotation_enabled,
                   active_balance_work, walt_lb_rotate_works, pc, local, ops>>

\* the rotation mode is switched by the WALT statistics code at any time
SetRotation ==
    /\ walt_rotation_enabled' = ~walt_rotation_enabled
    /\ UNCHANGED <<sel, rqvars, curr, lock, walt_lb_migration_lock, abvars, reserved,
                   misfit_task_load, idle_stamp, cpu_active, stopper_enabled,
                   active_balance_work, walt_lb_rotate_works, pc, local, ops>>

(* ---------------------------------------------------------------------- *)
(* The specification                                                       *)
(* ---------------------------------------------------------------------- *)
Next ==
    \/ \E c \in Cpus : NewidleStart(c)
    \/ \E c \in Cpus : NewidleScan(c)
    \/ \E c \in Cpus : PullLockSrc(c)
    \/ \E c \in Cpus : PullStop(c)
    \/ \E c \in Cpus : NewidleOut(c)
    \/ \E c \in Cpus : NewidleReturn(c)
    \/ \E c \in Cpus : DlbTry(c)
    \/ \E c \in Cpus : DlbDrop(c)
    \/ \E c \in Cpus : DlbWait(c)
    \/ \E c \in Cpus : DlbWaitGot(c)
    \/ \E c \in Cpus : DlbLo(c)
    \/ \E c \in Cpus : DlbHi(c)
    \/ \E c \in Cpus : DetachFinish(c)
    \/ \E c \in Cpus : Attach(c)
    \/ \E c \in Cpus : WorkerStart(c)
    \/ \E c \in Cpus : WorkerLock(c)
    \/ \E c \in Cpus : WorkerDone(c)
    \/ \E c \in Cpus, p \in Tasks, new_cpu \in Cpus : MigrateQueuedTask(c, p, new_cpu)
    \/ \E c \in Cpus : TickStart(c)
    \/ \E c \in Cpus : TickMigLock(c)
    \/ \E c \in Cpus : TickNewCpu(c)
    \/ \E c \in Cpus : TickRqLock(c)
    \/ \E c \in Cpus : TickMark(c)
    \/ \E c \in Cpus : TickStop(c)
    \/ \E c \in Cpus : RotLockLo(c)
    \/ \E c \in Cpus : RotLockHi(c)
    \/ \E c \in Cpus : RotQueue(c)
    \/ \E c \in Cpus : RotateSwap(c)
    \/ \E c \in Cpus : RotateClear(c)
    \/ \E c \in Cpus, next \in Tasks : Schedule(c, next)
    \/ \E c \in Cpus : CpuDown(c)
    \/ \E c \in Cpus : StopperPark(c)
    \/ SetRotation

Spec == Init /\ [][Next]_vars

\* a cpu is taken down while the newidle balancer pulls: no tick, no
\* rotation, two more operations
InitHotplug == InitQueues /\ ops = MaxOps + 2 /\ sel = NoSel
NextHotplug ==
    \/ \E c \in Cpus : NewidleStart(c)
    \/ \E c \in Cpus : NewidleScan(c)
    \/ \E c \in Cpus : PullLockSrc(c)
    \/ \E c \in Cpus : PullStop(c)
    \/ \E c \in Cpus : NewidleOut(c)
    \/ \E c \in Cpus : NewidleReturn(c)
    \/ \E c \in Cpus : DlbTry(c)
    \/ \E c \in Cpus : DlbDrop(c)
    \/ \E c \in Cpus : DlbWait(c)
    \/ \E c \in Cpus : DlbWaitGot(c)
    \/ \E c \in Cpus : DlbLo(c)
    \/ \E c \in Cpus : DlbHi(c)
    \/ \E c \in Cpus : DetachFinish(c)
    \/ \E c \in Cpus : Attach(c)
    \/ \E c \in Cpus : WorkerStart(c)
    \/ \E c \in Cpus : WorkerLock(c)
    \/ \E c \in Cpus : WorkerDone(c)
    \/ \E c \in Cpus, p \in Tasks, new_cpu \in Cpus : MigrateQueuedTask(c, p, new_cpu)
    \/ \E c \in Cpus, next \in Tasks : Schedule(c, next)
    \/ \E c \in Cpus : CpuDown(c)
    \/ \E c \in Cpus : StopperPark(c)
SpecHotplug == InitHotplug /\ [][NextHotplug]_vars

(* ---------------------------------------------------------------------- *)
(* The selectors as functions: calls on snapshots drawn from bounded sets  *)
(* ---------------------------------------------------------------------- *)
\* the longest queue of a snapshot
MaxNr == 3
NrLevels == 0 .. MaxNr
CurrUtilLevels == {task_util(p) : p \in Tasks \cup {NoTask}}

\* the calls walt_newidle_balance makes: a destination and one cluster of
\* its cpu_array row
SelCalls == {<<dst_cpu, cpu_array(cluster_id(dst_cpu), cluster)>> :
                dst_cpu \in Cpus, cluster \in 0 .. num_sched_clusters - 1}
SelFns == {"find_busiest_cpu", "similar_cap", "higher_cap", "lower_cap"}

\* snapshots that vary on the candidates: queue length, utilization,
\* activity and the rotation mode; no candidate is active-balancing, a
\* non-empty queue holds one big task and runs a big task
SelInputs(src_mask) ==
    {[nr |-> nr, util |-> util, active |-> active,
      ab |-> [c \in Cpus |-> FALSE],
      big |-> [c \in Cpus |-> IF nr[c] > 0 THEN 1 ELSE 0],
      curr_util |-> [c \in Cpus |-> IF nr[c] > 0 THEN task_util(1) ELSE 0],
      rot |-> rot] :
        nr \in {f \in [Cpus -> NrLevels] : \A c \in Cpus \ src_mask : f[c] = 1},
        util \in {u \in UtilInputs : \A c \in Cpus \ src_mask : u[c] = 100},
        active \in {a \in [Cpus -> BOOLEAN] : \A c \in Cpus \ src_mask : a[c]},
        rot \in BOOLEAN}

\* the big tasks of a queue are among its tasks, and an empty queue runs
\* no fair task
SelConsistent(s) ==
    \A c \in Cpus : s.big[c] <= s.nr[c] /\ (s.nr[c] = 0 => s.curr_util[c] = 0)

\* the snapshots that differ from s in one statistic of one cpu
SelVariants(s) ==
    {[s EXCEPT !.nr[c] = v] : c \in Cpus, v \in NrLevels}
    \cup {[s EXCEPT !.util[c] = v[c]] : c \in Cpus, v \in UtilInputs}
    \cup {[s EXCEPT !.active[c] = v] : c \in Cpus, v \in BOOLEAN}
    \cup {[s EXCEPT !.ab[c] = v] : c \in Cpus, v \in BOOLEAN}
    \cup {[s EXCEPT !.big[c] = v] : c \in Cpus, v \in {0, 1}}
    \cup {[s EXCEPT !.curr_util[c] = v] : c \in Cpus, v \in CurrUtilLevels}
    \cup {[s EXCEPT !.rot = v] : v \in BOOLEAN}

SelResult(fn, s, dst_cpu, src_mask) ==
    CASE fn = "find_busiest_cpu" -> walt_lb_find_busiest_cpu(s, dst_cpu, src_mask)
      [] fn = "similar_cap" -> walt_lb_find_busiest_similar_cap_cpu(s, dst_cpu, src_mask)
      [] fn = "higher_cap" -> walt_lb_find_busiest_higher_cap_cpu(s, dst_cpu, src_mask)
      [] fn = "lower_cap" -> walt_lb_find_busiest_lower_cap_cpu(s, dst_cpu, src_mask)

\* the tasks where the base placement puts them, nothing in progress
InitSelect ==
    /\ InitQueues
    /\ task_cpu = [p \in Tasks |-> IF p = 1 THEN 0 ELSE 1]
    /\ curr = [c \in Cpus |-> IF cfs_tasks[c] = <<>> THEN NoTask ELSE Head(cfs_tasks[c])]
    /\ ops = 0
    /\ \E call \in SelCalls : \E s \in SelInputs(call[2]) :
          sel = [phase |-> "drawn", dst_cpu |-> call[1], src_mask |-> call[2],
                 s |-> s, t |-> s, fn |-> "none", out_s |-> NoCpu, out_t |-> NoCpu]

\* a second snapshot is taken that differs from the first in one statistic
SelPerturb ==
    /\ sel.phase = "drawn"
    /\ \E t \in {v \in SelVariants(sel.s) : SelConsistent(v)} :
          sel' = [sel EXCEPT !.phase = "perturbed", !.t = t]
    /\ UNCHANGED progvars

\* the selector fn is called on both snapshots
SelApply(fn) ==
    /\ sel.phase = "perturbed"
    /\ sel' = [sel EXCEPT !.phase = "applied", !.fn = fn,
                          !.out_s = SelResult(fn, sel.s, sel.dst_cpu, sel.src_mask),
                          !.out_t = SelResult(fn, sel.t, sel.dst_cpu, sel.src_mask)]
    /\ UNCHANGED progvars

NextSelect ==
    \/ SelPerturb
    \/ \E fn \in SelFns : SelApply(fn)
SpecSelect == InitSelect /\ [][NextSelect]_vars

(* ---------------------------------------------------------------------- *)
(* A newidle balance of the big cpu while both little cpus are loaded      *)
(* ---------------------------------------------------------------------- *)
\* three tasks on each little cpu, in any queue order, one of them running;
\* the big cpu has nothing to run; the tasks 4 to 6 are as task 1
LoadedTasks == Tasks \cup {4, 5, 6}
LoadedOn(cpu) == IF cpu = 0 THEN {1, 2, 4} ELSE IF cpu = 1 THEN {3, 5, 6} ELSE {}
QueueOrders(ps) ==
    {q \in [1 .. Cardinality(ps) -> ps] : \A i, j \in 1 .. Cardinality(ps) : q[i] = q[j] => i = j}

InitLoaded ==
    /\ \E q0 \in QueueOrders(LoadedOn(0)), q1 \in QueueOrders(LoadedOn(1)) :
          cfs_tasks = [c \in Cpus |-> IF c = 0 THEN q0 ELSE IF c = 1 THEN q1 ELSE <<>>]
    /\ task_cpu = [p \in LoadedTasks |-> IF p \in LoadedOn(0) THEN 0 ELSE 1]
    /\ curr \in [Cpus -> LoadedTasks \cup {NoTask}]
    /\ \A c \in Cpus : IF cfs_tasks[c] = <<>> THEN curr[c] = NoTask
                        ELSE curr[c] # NoTask /\ InQueue(curr[c], c)
    /\ on_rq = [p \in LoadedTasks |-> "queued"]
    /\ last_enqueued_ts = [p \in LoadedTasks |-> 0]
    /\ lock = [c \in Cpus |-> NoCpu]
    /\ walt_lb_migration_lock = NoCpu
    /\ active_balance = [c \in Cpus |-> FALSE]
    /\ push_cpu = [c \in Cpus |-> 0]
    /\ push_task = [c \in Cpus |-> NoTask]
    /\ reserved = [c \in Cpus |-> FALSE]
    /\ misfit_task_load = [c \in Cpus |-> IF curr[c] # NoTask /\ task_misfit(curr[c]) THEN 1 ELSE 0]
    /\ idle_stamp = [c \in Cpus |-> 0]
    /\ cpu_active = [c \in Cpus |-> TRUE]
    /\ stopper_enabled = [c \in Cpus |-> TRUE]
    /\ walt_rotation_enabled = FALSE
    /\ active_balance_work = [c \in Cpus |-> FALSE]
    /\ walt_lb_rotate_works = [c \in Cpus |-> NoWork]
    /\ pc = [c \in Cpus |-> "idle"]
    /\ local = [c \in Cpus |-> NoLocal]
    /\ ops = 1
    /\ sel = NoSel

\* the one newidle balance, with nothing else running
NextLoaded ==
    \/ \E c \in Cpus : NewidleStart(c)
    \/ \E c \in Cpus : NewidleScan(c)
    \/ \E c \in Cpus : PullLockSrc(c)
    \/ \E c \in Cpus : PullStop(c)
    \/ \E c \in Cpus : NewidleOut(c)
    \/ \E c \in Cpus : NewidleReturn(c)
    \/ \E c \in Cpus : DlbTry(c)
    \/ \E c \in Cpus : DlbDrop(c)
    \/ \E c \in Cpus : DlbLo(c)
    \/ \E c \in Cpus : DlbHi(c)
    \/ \E c \in Cpus : DetachFinish(c)
    \/ \E c \in Cpus : Attach(c)
SpecLoaded == InitLoaded /\ [][NextLoaded]_vars

(* ---------------------------------------------------------------------- *)
(* The rotation protocol on its own: rotation mode is on, the running      *)
(* tasks were enqueued at any time up to now                               *)
(* ---------------------------------------------------------------------- *)
InitRotate ==
    /\ \E pl \in Placements :
          /\ task_cpu = pl
          /\ cfs_tasks = [c \in Cpus |-> QueueOf(pl, c, Tasks)]
    /\ curr \in [Cpus -> Tasks \cup {NoTask}]
    /\ \A c \in Cpus : IF cfs_tasks[c] = <<>> THEN curr[c] = NoTask
                        ELSE curr[c] # NoTask /\ InQueue(curr[c], c)
    /\ on_rq = [p \in Tasks |-> "queued"]
    /\ last_enqueued_ts \in [Tasks -> 0 .. Now]
    /\ lock = [c \in Cpus |-> NoCpu]
    /\ walt_lb_migration_lock = NoCpu
    /\ active_balance = [c \in Cpus |-> FALSE]
    /\ push_cpu = [c \in Cpus |-> 0]
    /\ push_task = [c \in Cpus |-> NoTask]
    /\ reserved = [c \in Cpus |-> FALSE]
    /\ misfit_task_load = [c \in Cpus |-> IF curr[c] # NoTask /\ task_misfit(curr[c]) THEN 1 ELSE 0]
    /\ idle_stamp = [c \in Cpus |-> 0]
    /\ cpu_active = [c \in Cpus |-> TRUE]
    /\ stopper_enabled = [c \in Cpus |-> TRUE]
    /\ walt_rotation_enabled = TRUE
    /\ active_balance_work = [c \in Cpus |-> FALSE]
    /\ walt_lb_rotate_works = [c \in Cpus |-> NoWork]
    /\ pc = [c \in Cpus |-> "idle"]
    /\ local = [c \in Cpus |-> NoLocal]
    /\ ops = MaxOps
    /\ sel = NoSel

\* ticks in rotation mode, the rotation work and context switches
NextRotate ==
    \/ \E c \in Cpus : TickStart(c)
    \/ \E c \in Cpus : TickMigLock(c)
    \/ \E c \in Cpus : RotLockLo(c)
    \/ \E c \in Cpus : RotLockHi(c)
    \/ \E c \in Cpus : RotQueue(c)
    \/ \E c \in Cpus : RotateSwap(c)
    \/ \E c \in Cpus : RotateClear(c)
    \/ \E c \in Cpus, next \in Tasks : Schedule(c, next)
SpecRotate == InitRotate /\ [][NextRotate]_vars

(* ---------------------------------------------------------------------- *)
(* Rotations among active migrations: one task on each cpu, ticks in both  *)
(* modes, the workers they queue and a cpu going down                      *)
(* ---------------------------------------------------------------------- *)
InitOwner ==
    /\ InitQueues
    /\ task_cpu = [p \in Tasks |-> IF p = 1 THEN 0 ELSE IF p = 2 THEN 2 ELSE 1]
    /\ ops = MaxOps + 3
    /\ sel = NoSel
NextOwner ==
    \/ \E c \in Cpus : DlbTry(c)
    \/ \E c \in Cpus : DlbDrop(c)
    \/ \E c \in Cpus : DlbWait(c)
    \/ \E c \in Cpus : DlbWaitGot(c)
    \/ \E c \in Cpus : DlbLo(c)
    \/ \E c \in Cpus : DlbHi(c)
    \/ \E c \in Cpus : DetachFinish(c)
    \/ \E c \in Cpus : Attach(c)
    \/ \E c \in Cpus : WorkerStart(c)
    \/ \E c \in Cpus : WorkerLock(c)
    \/ \E c \in Cpus : WorkerDone(c)
    \/ \E c \in Cpus : TickStart(c)
    \/ \E c \in Cpus : TickMigLock(c)
    \/ \E c \in Cpus : TickNewCpu(c)
    \/ \E c \in Cpus : TickRqLock(c)
    \/ \E c \in Cpus : TickMark(c)
    \/ \E c \in Cpus : TickStop(c)
    \/ \E c \in Cpus : RotLockLo(c)
    \/ \E c \in Cpus : RotLockHi(c)
    \/ \E c \in Cpus : RotQueue(c)
    \/ \E c \in Cpus : RotateSwap(c)
    \/ \E c \in Cpus : RotateClear(c)
    \/ \E c \in Cpus, next \in Tasks : Schedule(c, next)
    \/ \E c \in Cpus : CpuDown(c)
    \/ SetRotation
SpecOwner == InitOwner /\ [][NextOwner]_vars

TypeOK ==
    /\ \A c \in Cpus : curr[c] \in Tasks \cup {NoTask}
    /\ \A c \in Cpus : lock[c] \in Cpus \cup {NoCpu}
    /\ ops \in Nat

(* ---------------------------------------------------------------------- *)
(* Queue membership                                                        *)
(* ---------------------------------------------------------------------- *)
\* the places of p in the queues
Occurrences(p) == {<<c, i>> \in Cpus \X (1 .. Cardinality(Tasks) + 1) :
                     i <= Len(cfs_tasks[c]) /\ cfs_tasks[c][i] = p}
\* the contexts that have detached p and not yet attached it
Migrators(p) == {c \in Cpus : local[c].p = p
                    /\ pc[c] \in {"dlb", "dlb_lo", "dlb_hi", "dlb_wait", "dlb_both", "attach"}}
\* every started operation has finished and no deferred work is left
AllFinished ==
    /\ \A c \in Cpus : pc[c] = "idle" /\ ~active_balance_work[c]
    /\ \A c \in Cpus : ~walt_lb_rotate_works[c].pending /\ walt_lb_rotate_works[c].ran = "no"

\* C1: under every interleaving of pulls, active-migration workers, hook
\* moves and rotation swaps no task is ever in two queues (or twice in
\* one), and once every started operation has finished each task is in
\* exactly one queue, the one of its owning cpu
C1_NoDoubleAttach ==
    /\ \A p \in Tasks : Cardinality(Occurrences(p)) <= 1
    /\ AllFinished => \A p \in Tasks : Cardinality(Occurrences(p)) = 1
                                        /\ QueuesOf(p) = {task_cpu[p]}
\* two tasks have been moved to another queue and everything has finished
C1_Witness ==
    /\ AllFinished
    /\ Cardinality({p \in Tasks : last_enqueued_ts[p] = Now}) >= 2
    /\ \E p \in Tasks : last_enqueued_ts[p] = Now /\ task_cpu[p] = 2

Holder(c) ==
    LET l == local[c] IN
    IF pc[c] \in {"pull_src"} THEN lock[l.src]
    ELSE IF pc[c] \in {"dlb_lo", "rot_lo"} THEN lock[Min2(l.src, l.dst)]
    ELSE IF pc[c] \in {"dlb_hi", "rot_hi"} THEN lock[Max2(l.src, l.dst)]
    ELSE IF pc[c] \in {"dlb_wait", "attach"} THEN lock[l.dst]
    ELSE IF pc[c] \in {"ni_out", "am_lock", "tick_rq"} THEN lock[c]
    ELSE IF pc[c] = "tick_mig" THEN walt_lb_migration_lock
    ELSE NoCpu
Blocked(c) == Holder(c) # NoCpu

\* C3: no interleaving of pulls, workers, hook moves, tick arming and
\* rotation arming reaches a circular wait (a set of contexts each waiting
\* for a lock held by another of the set), and no lock is left held by a
\* context that has finished, so some started operation can always proceed
C3_NoDeadlock ==
    /\ \A D \in SUBSET Cpus : D # {} => \E c \in D : ~Blocked(c) \/ Holder(c) \notin D
    /\ \A c \in Cpus : lock[c] # NoCpu => pc[lock[c]] # "idle"
    /\ walt_lb_migration_lock # NoCpu => pc[walt_lb_migration_lock] # "idle"
    /\ (\E c \in Cpus : pc[c] # "idle") => \E c \in Cpus : pc[c] # "idle" /\ ~Blocked(c)
\* two opposite-direction migrations are in flight, one waiting for a lock
\* the other holds
C3_Witness ==
    \E a, b \in Cpus :
        /\ a # b /\ Migrators(local[a].p) = {a} /\ Migrators(local[b].p) = {b}
        /\ local[a].src = local[b].dst /\ local[a].dst = local[b].src
        /\ Holder(a) = b

(* ---------------------------------------------------------------------- *)
(* Reservations and armed requests                                         *)
(* ---------------------------------------------------------------------- *)
\* the armed active migrations whose recorded destination is u
ArmedInto(u) == {c \in Cpus : active_balance[c] /\ push_cpu[c] = u}
\* the rotation work items, armed and not yet done, that pair u
RotationsOn(u) == {c \in Cpus : walt_lb_rotate_works[c].src_cpu # NoCpu
                      /\ u \in {walt_lb_rotate_works[c].src_cpu,
                                 walt_lb_rotate_works[c].dst_cpu}}

\* C4, as stated: at most one in-flight migration (armed active migration
\* or pending rotation swap) targets a unit, and a set reservation flag
\* corresponds to exactly one pending migration referencing the unit
C4_ReservationExclusive ==
    \A u \in Cpus :
        /\ Cardinality(ArmedInto(u)) + Cardinality(RotationsOn(u)) <= 1
        /\ reserved[u] => Cardinality(ArmedInto(u)) + Cardinality(RotationsOn(u)) = 1

\* C5, as stated: the pinned push task of an armed active migration stays
\* queued on its source until the worker of that source detaches it or
\* clears the marker; no other path detaches or moves it
C5_PinnedTaskStays ==
    \A c \in Cpus : push_task[c] # NoTask =>
        LET t == push_task[c] IN
        \/ task_cpu[t] = c /\ on_rq[t] = "queued" /\ QueuesOf(t) = {c}
        \/ Migrators(t) = {c} /\ local[c].kind = "am"

(* ---------------------------------------------------------------------- *)
(* The active-migration worker's exits                                     *)
(* ---------------------------------------------------------------------- *)
\* the step in which the worker of c releases the source lock at line 67:
\* after a failed revalidation, or after the detach
WorkerGivesUp(c) == pc[c] = "am_lock" /\ pc'[c] = "put"
WorkerDetached(c) ==
    /\ local[c].kind = "am" /\ pc[c] = "dlb_both"
    /\ pc'[c] = "attach"

\* C6: on every exit path of the worker, failed or successful, the
\* source's active_balance flag, the reservation of the recorded
\* destination and the push-task marker are all clear when the worker
\* releases the source lock
C6_WorkerExitClears ==
    [][\A c \in Cpus : WorkerGivesUp(c) \/ WorkerDetached(c) =>
            /\ ~active_balance'[c]
            /\ ~reserved'[push_cpu[c]]
            /\ push_task'[c] = NoTask
            /\ lock'[c] = NoCpu]_vars
\* a worker gave up because its destination had gone inactive, and left
\* the flag, the reservation and the marker clear
C6_Witness ==
    \E c \in Cpus :
        /\ pc[c] = "put" /\ local[c].kind = "am" /\ local[c].pulled = 0
        /\ ~cpu_active[local[c].dst]
        /\ ~active_balance[c] /\ ~reserved[local[c].dst] /\ push_task[c] = NoTask

\* the revalidation of the worker of c fails for one of the reasons named:
\* source or destination inactive, or the pinned task no longer queued on
\* the source
RevalidationFails(c) ==
    \/ ~cpu_active[c] \/ ~cpu_active[local[c].dst]
    \/ ~(on_rq[local[c].p] = "queued" /\ task_cpu[local[c].p] = c)

\* C7: a worker whose revalidation fails moves nothing: every queue, every
\* task's owning cpu and queued state are as before, and the worker goes
\* on to its return with no task detached
C7_FailedRevalidationNoOp ==
    [][\A c \in Cpus : pc[c] = "am_lock" /\ pc'[c] # "am_lock" /\ RevalidationFails(c) =>
            /\ cfs_tasks' = cfs_tasks /\ task_cpu' = task_cpu /\ on_rq' = on_rq
            /\ pc'[c] = "put" /\ local'[c].pulled = 0]_vars
\* a worker gave up because another path had moved its pinned task, which
\* is queued where that path put it
C7_Witness ==
    \E c \in Cpus :
        /\ pc[c] = "put" /\ local[c].kind = "am" /\ local[c].pulled = 0
        /\ task_cpu[local[c].p] # c
        /\ on_rq[local[c].p] = "queued" /\ QueuesOf(local[c].p) = {task_cpu[local[c].p]}

\* C8, as stated, in its finite form: once every queued worker has run and
\* every started operation has finished, no unit is left armed and no
\* destination is left reserved, also when the worker could not be queued
C8_ArmedIsConsumed ==
    AllFinished => \A c \in Cpus : ~active_balance[c] /\ ~reserved[c]

\* C9, as stated: a unit that is the source of an armed active migration
\* is not at the same time paired by a pending rotation swap, and a unit
\* reserved as the destination of an armed active migration is not at the
\* same time paired by a pending rotation swap
C9_OneArmedState ==
    \A u \in Cpus :
        /\ ~(active_balance[u] /\ RotationsOn(u) # {})
        /\ ~(reserved[u] /\ ArmedInto(u) # {} /\ RotationsOn(u) # {})

(* ---------------------------------------------------------------------- *)
(* Rotation                                                                *)
(* ---------------------------------------------------------------------- *)
\* the step in which the work item of c passes its migrate_swap call, and
\* the step in which it finishes
SwapRuns(c) == walt_lb_rotate_works[c].ran = "no" /\ walt_lb_rotate_works'[c].ran # "no"
WorkEnds(c) == walt_lb_rotate_works[c].ran # "no" /\ walt_lb_rotate_works'[c].ran = "no"
\* p is on cpu after the step
NowOn(p, cpu) == task_cpu'[p] = cpu /\ \E i \in 1 .. Len(cfs_tasks'[cpu]) : cfs_tasks'[cpu][i] = p
\* p is where it was
Untouched(p) == task_cpu'[p] = task_cpu[p] /\ \A c \in Cpus : InQueue(p, c) <=>
                    \E i \in 1 .. Len(cfs_tasks'[c]) : cfs_tasks'[c][i] = p

\* C10, as stated: the swap work item of an armed rotation exchanges the
\* two recorded tasks between the two units when it runs
C10_SwapExchanges ==
    [][\A c \in Cpus : SwapRuns(c) =>
            LET w == walt_lb_rotate_works[c] IN
            NowOn(w.src_task, w.dst_cpu) /\ NowOn(w.dst_task, w.src_cpu)]_vars
\* C10, amended: the work item runs only when queued and consumes its
\* queueing; it exchanges the recorded tasks only if both cpus are still
\* active with their stoppers, each task may run on the other cpu and
\* each is still owned by its recorded cpu, and then it moves each
\* recorded task that is queued; otherwise no task moves; when the work
\* item finishes both reservations are clear
C10_SwapIfStillValid ==
    [][\A c \in Cpus :
          LET w == walt_lb_rotate_works[c] IN
          /\ SwapRuns(c) =>
                /\ w.pending /\ ~walt_lb_rotate_works'[c].pending
                /\ IF swap_precheck(w) /\ swap_owned(w)
                   THEN /\ walt_lb_rotate_works'[c].ran = "swapped"
                        /\ IF on_rq[w.src_task] = "queued"
                           THEN NowOn(w.src_task, w.dst_cpu) ELSE Untouched(w.src_task)
                        /\ IF on_rq[w.dst_task] = "queued"
                           THEN NowOn(w.dst_task, w.src_cpu) ELSE Untouched(w.dst_task)
                   ELSE /\ walt_lb_rotate_works'[c].ran = "skipped"
                        /\ \A p \in Tasks : Untouched(p)
                /\ \A p \in Tasks \ {w.src_task, w.dst_task} : Untouched(p)
          /\ WorkEnds(c) => ~reserved'[w.src_cpu] /\ ~reserved'[w.dst_cpu]]_vars
\* a work item has exchanged its two recorded tasks
C10_Witness ==
    \E c \in Cpus :
        LET w == walt_lb_rotate_works[c] IN
        /\ w.ran = "swapped"
        /\ task_cpu[w.src_task] = w.dst_cpu /\ InQueue(w.src_task, w.dst_cpu)
        /\ task_cpu[w.dst_task] = w.src_cpu /\ InQueue(w.dst_task, w.src_cpu)

\* the rotation pairs in existence: the one a context is arming and those
\* recorded in the work items
RotationPairs ==
    {<<local[c].src, local[c].dst>> : c \in {x \in Cpus : local[x].kind = "rot"}}
    \cup {<<walt_lb_rotate_works[c].src_cpu, walt_lb_rotate_works[c].dst_cpu>> :
            c \in {x \in Cpus : walt_lb_rotate_works[x].src_cpu # NoCpu}}

\* C11: every rotation ever armed pairs a source that is a minimum-capacity
\* cpu with a destination that is not one; a rotation never pairs two cpus
\* of the same tier nor a cpu with itself, and the work item is the one of
\* the source cpu
C11_RotationCrossTier ==
    /\ \A pr \in RotationPairs :
          /\ is_min_capacity_cpu(pr[1]) /\ ~is_min_capacity_cpu(pr[2])
          /\ capacity_orig_of(pr[1]) < capacity_orig_of(pr[2])
          /\ pr[1] # pr[2]
    /\ \A c \in Cpus : walt_lb_rotate_works[c].src_cpu \in {NoCpu, c}
\* a rotation of a little cpu with the big cpu is armed and queued
C11_Witness ==
    \E c \in Cpus :
        /\ walt_lb_rotate_works[c].pending
        /\ walt_lb_rotate_works[c].src_cpu = c
        /\ is_min_capacity_cpu(c)
        /\ ~is_min_capacity_cpu(walt_lb_rotate_works[c].dst_cpu)
        /\ reserved[c] /\ reserved[walt_lb_rotate_works[c].dst_cpu]

(* ---------------------------------------------------------------------- *)
(* The tick balancer's cheap path                                          *)
(* ---------------------------------------------------------------------- *)
\* the rq of c has no misfit load, or its running task is not runnable or
\* may run on one cpu only; the idle task and the stopper thread, which run
\* when no fair task does, are bound to their cpu
TickNoOpCase(c) ==
    \/ misfit_task_load[c] = 0
    \/ curr[c] = NoTask
    \/ curr[c] # NoTask /\ task_state(curr[c]) # "TASK_RUNNING"
    \/ curr[c] # NoTask /\ nr_cpus_allowed(curr[c]) = 1

\* C12: walt_lb_tick on a cpu with no misfit load, or whose running task is
\* not runnable or may run on one cpu only, is a pure no-op: it takes
\* neither the migration-decision lock nor an rq lock, changes no flag,
\* reservation, queue or owner, queues no worker and leaves its context
\* where it was, so the state after any number of such ticks is the state
\* before them (the budget of operations aside)
C12_TickNoOp ==
    [][\A c \in Cpus : TickStart(c) /\ TickNoOpCase(c) =>
            UNCHANGED <<cfs_tasks, curr, task_cpu, on_rq, last_enqueued_ts, lock,
                        walt_lb_migration_lock, active_balance, push_cpu, push_task,
                        reserved, misfit_task_load, idle_stamp, cpu_active, stopper_enabled,
                        walt_rotation_enabled, active_balance_work,
                        walt_lb_rotate_works, pc, local>>]_vars
\* the operations have been used up and have finished, with nothing armed
\* or locked, in a state where the tick is a no-op for two reasons: one
\* cpu runs a task that is not misfit, another has misfit load left but
\* runs no fair task
C12_Witness ==
    /\ ops = 0 /\ AllFinished
    /\ \A c \in Cpus : lock[c] = NoCpu /\ ~active_balance[c] /\ ~reserved[c]
    /\ walt_lb_migration_lock = NoCpu
    /\ \E c \in Cpus : curr[c] # NoTask /\ misfit_task_load[c] = 0 /\ stopper_enabled[c]
    /\ \E c \in Cpus : curr[c] = NoTask /\ misfit_task_load[c] # 0 /\ stopper_enabled[c]

(* ---------------------------------------------------------------------- *)
(* The busiest-cpu selectors                                               *)
(* ---------------------------------------------------------------------- *)
\* the step in which a selector returns
SelReturns == sel.phase = "perturbed" /\ sel'.phase = "applied"
\* s and t agree on the rotation mode and, on every cpu, on utilization,
\* queue length and activity (capacities are fixed)
SameListedInputs(s, t) ==
    /\ s.rot = t.rot
    /\ \A c \in Cpus : s.util[c] = t.util[c] /\ s.nr[c] = t.nr[c] /\ s.active[c] = t.active[c]
\* s and t agree on the rotation mode and on every statistic of every
\* candidate
SameCandidateInputs(s, t, src_mask) ==
    /\ s.rot = t.rot
    /\ \A c \in src_mask :
          /\ s.util[c] = t.util[c] /\ s.nr[c] = t.nr[c] /\ s.active[c] = t.active[c]
          /\ s.ab[c] = t.ab[c] /\ s.big[c] = t.big[c] /\ s.curr_util[c] = t.curr_util[c]

\* C13, as stated: the cpu a selector returns is determined by the
\* destination, the candidate set, the rotation mode and the per-cpu
\* utilization, queue length, capacity and activity
C13_FunctionOfListedInputs ==
    [][SelReturns /\ SameListedInputs(sel.s, sel.t) => sel'.out_s = sel'.out_t]_vars
\* C13, amended: the cpu a selector returns is a candidate or none, and is
\* determined by the candidate set, the rotation mode and, for each
\* candidate, its utilization, queue length, capacity, activity, its
\* active_balance flag, its number of big tasks and the demand of its
\* running task; the call changes no state of any cpu
C13_FunctionOfCandidateStats ==
    [][SelReturns =>
          /\ SameCandidateInputs(sel.s, sel.t, sel.src_mask) => sel'.out_s = sel'.out_t
          /\ sel'.out_s \in sel.src_mask \cup {NoCpu}
          /\ sel'.out_t \in sel.src_mask \cup {NoCpu}
          /\ UNCHANGED progvars]_vars
\* two snapshots that differ on a cpu outside the candidate set gave the
\* same busiest cpu
C13_Witness ==
    /\ sel.phase = "applied" /\ sel.s # sel.t
    /\ SameCandidateInputs(sel.s, sel.t, sel.src_mask)
    /\ sel.out_s = sel.out_t /\ sel.out_s \in sel.src_mask

(* ---------------------------------------------------------------------- *)
(* Newidle pull of a higher-capacity cpu                                   *)
(* ---------------------------------------------------------------------- *)
\* the lower-capacity cluster as this_cpu finds it
LowerCluster(this_cpu) == {c \in Cpus : capacity_orig_of(c) < capacity_orig_of(this_cpu)}
SumOver(f, cpus) == LET seq == for_each_cpu(cpus) IN
    IF Len(seq) = 0 THEN 0 ELSE IF Len(seq) = 1 THEN f[seq[1]] ELSE f[seq[1]] + f[seq[2]]
\* this_cpu is active and idle with an empty queue, its own cluster has no
\* cpu with two tasks, the root domain is overloaded, and every cpu of the
\* lower cluster has at least three tasks, is overutilized under util, and
\* together they pass the aggregate load gate
NewidlePullCase(this_cpu, util) ==
    LET s == Snapshot(util) IN
    /\ cpu_active[this_cpu] /\ cfs_tasks[this_cpu] = <<>> /\ nr_running(this_cpu) = 0
    /\ \A c \in Cpus : same_cluster(c, this_cpu) => s.nr[c] < 2
    /\ rd_overload
    /\ LowerCluster(this_cpu) # {}
    /\ \A c \in LowerCluster(this_cpu) : s.active[c] /\ s.nr[c] >= 3 /\ cpu_overutilized(s, c)
    /\ ~cluster_not_loaded(SumOver(s.nr, LowerCluster(this_cpu)),
                           Cardinality(LowerCluster(this_cpu)),
                           SumOver(util, LowerCluster(this_cpu)),
                           SumOver([c \in Cpus |-> capacity_orig_of(c)], LowerCluster(this_cpu)))

\* C14, as stated: a newidle balance of an idle higher-capacity cpu that
\* finds every cpu of the lower cluster with three tasks, overutilized and
\* passing the load gate selects a cpu of that cluster of maximal
\* utilization, moves exactly one task that is not running from it to the
\* idle cpu, and reports one task pulled
C14_NewidlePullsOneWaiting ==
    \A c \in Cpus :
        /\ pc[c] = "ni_scan" =>
              \A util \in UtilInputs :
                  LET busy_cpu == newidle_scan(Snapshot(util), c, 0) IN
                  /\ NewidlePullCase(c, util) =>
                        /\ busy_cpu \in LowerCluster(c)
                        /\ \A o \in LowerCluster(c) : util[o] <= util[busy_cpu]
                  /\ busy_cpu # NoCpu => NewidlePullCase(c, util)
        /\ pc[c] \in {"pull_stop", "dlb", "dlb_lo", "dlb_hi", "dlb_both", "attach", "ni_out"}
              /\ local[c].kind = "pull" =>
              /\ pc[c] # "pull_stop"
              /\ local[c].p # NoTask /\ local[c].p # curr[local[c].src]
              /\ Len(cfs_tasks[local[c].src]) = 2
              /\ pc[c] = "ni_out" =>
                    /\ local[c].pulled = 1
                    /\ cfs_tasks[c] = <<local[c].p>> /\ task_cpu[local[c].p] = c

(* ---------------------------------------------------------------------- *)
(* The two BUG_ON assertions                                               *)
(* ---------------------------------------------------------------------- *)
\* the worker of c has reached line 52: the sanity checks of lines 42-50
\* have passed
WorkerAtAssertion(c) ==
    /\ pc[c] = "am_lock"
    /\ cpu_active[c] /\ cpu_active[local[c].dst]
    /\ active_balance[c]
    /\ nr_running(c) > 1

\* C15: no balancing operation reaches a fatal condition: whenever
\* walt_lb_pull_tasks is entered its source differs from its destination
\* (line 256), and whenever the worker reaches its assertion the source rq
\* differs from the target rq (line 52); no armed request names its own
\* cpu as the push target
C15_AssertionsHold ==
    \A c \in Cpus :
        /\ pc[c] \in {"pull_src", "pull_stop"} => local[c].src # local[c].dst
        /\ WorkerAtAssertion(c) => local[c].dst # c
        /\ local[c].kind \in {"am", "pull", "mq"}
              /\ pc[c] \in {"dlb", "dlb_lo", "dlb_hi", "dlb_wait", "dlb_both", "attach"}
              => local[c].src # local[c].dst
        /\ active_balance[c] => push_cpu[c] # c
\* a worker has passed its assertion and detached the push task while
\* another cpu has entered walt_lb_pull_tasks
C15_Witness ==
    \E c, d \in Cpus :
        /\ local[c].kind = "am" /\ pc[c] \in {"dlb", "attach"} /\ local[c].dst # c
        /\ pc[d] = "pull_src" /\ local[d].src # d

(* ---------------------------------------------------------------------- *)
(* walt_lb_pull_tasks: what a call moves and what it returns               *)
(* ---------------------------------------------------------------------- *)
\* the steps of the pull of c: the scan under the source lock, with its
\* three outcomes, the hand-over to the stopper, and the attach
PullScans(c) == pc[c] = "pull_src" /\ pc'[c] # "pull_src"
PullAttaches(c) == pc[c] = "attach" /\ local[c].kind = "pull" /\ pc'[c] # "attach"
PullReturns(c) == pc[c] # "ni_out" /\ pc'[c] = "ni_out" /\ local'[c].kind = "pull"
\* a task of src that is allowed on dst and is not a pinned push task
PullCandidates(src, dst) ==
    {p \in LoadedTasks : InQueue(p, src) /\ dst \in cpus_ptr(p)
        /\ _walt_can_migrate_task(p, dst, capacity_orig_of(dst) < capacity_orig_of(src))}

\* C16: a call of walt_lb_pull_tasks moves at most one task; it returns 1
\* exactly when it has detached one task that was not running on the
\* source and attached it to the destination, which then owns it and has
\* it queued; it returns 0 when no task qualifies and when it only arms an
\* active migration, and then no queue has changed
C16_PullMovesOneOrNone ==
    [][\A c \in Cpus :
          LET l == local[c] IN
          /\ PullScans(c) =>
                \/ /\ pc'[c] = "dlb"
                   /\ local'[c].p \in PullCandidates(l.src, l.dst)
                   /\ ~task_running(l.src, local'[c].p)
                   /\ cfs_tasks' = deactivate_task(cfs_tasks, l.src, local'[c].p)
                   /\ UNCHANGED <<abvars, reserved>>
                \/ /\ pc'[c] = "pull_stop"
                   /\ active_balance'[l.src] /\ UNCHANGED <<cfs_tasks, task_cpu>>
                \/ /\ pc'[c] = "ni_out"
                   /\ \A p \in PullCandidates(l.src, l.dst) :
                         task_running(l.src, p) /\ ~need_active_lb(p, l.dst, l.src)
                   /\ UNCHANGED <<cfs_tasks, task_cpu, abvars, reserved>>
          /\ PullAttaches(c) =>
                /\ cfs_tasks' = activate_task(cfs_tasks, l.dst, l.p)
                /\ task_cpu'[l.p] = l.dst /\ on_rq'[l.p] = "queued"
                /\ \A o \in Cpus \ {l.dst} : ~InQueue(l.p, o)
          /\ PullReturns(c) =>
                /\ local'[c].pulled = (IF PullAttaches(c) THEN 1 ELSE 0)
                /\ pc[c] \in {"attach", "pull_stop", "pull_src"}]_vars
\* a pull has returned 1 and the pulled task, which does not run, is owned
\* by and queued on the destination
C16_Witness ==
    \E c \in Cpus :
        /\ pc[c] = "ni_out" /\ local[c].kind = "pull" /\ local[c].pulled = 1
        /\ cfs_tasks[c] = <<local[c].p>> /\ task_cpu[local[c].p] = c
        /\ Len(cfs_tasks[local[c].src]) >= 1

\* the step in which the pull of c arms an active migration, and the step
\* in which it hands the worker to the stopper
PullArms(c) == PullScans(c) /\ pc'[c] = "pull_stop"
PullQueuesWorker(c) == pc[c] = "pull_stop" /\ pc'[c] # "pull_stop"

\* C17: walt_lb_pull_tasks arms an active migration only when the
\* destination's capacity is strictly greater than the source's, the task
\* it stopped at runs on the source and is misfit, and the source is not
\* already active-balancing; arming sets the source's active_balance,
\* records the destination as push cpu, pins the task and reserves the
\* destination in the critical section of the source lock; the worker is
\* queued in a later step, with that lock released, and the call reports
\* zero tasks pulled
C17_PullArmsMisfitUp ==
    [][\A c \in Cpus :
          LET l == local[c] IN
          /\ PullArms(c) =>
                /\ capacity_orig_of(l.dst) > capacity_orig_of(l.src)
                /\ task_running(l.src, local'[c].p) /\ task_misfit(local'[c].p)
                /\ ~active_balance[l.src]
                /\ lock[l.src] = NoCpu /\ lock' = lock
                /\ active_balance'[l.src] /\ push_cpu'[l.src] = l.dst
                /\ push_task'[l.src] = local'[c].p /\ reserved'[l.dst]
                /\ active_balance_work' = active_balance_work
                /\ UNCHANGED <<cfs_tasks, task_cpu, on_rq>>
          /\ PullQueuesWorker(c) =>
                /\ lock[l.src] # c /\ lock' = lock
                /\ stopper_enabled[l.src] => active_balance_work'[l.src]
                /\ \A o \in Cpus \ {l.src} : active_balance_work'[o] = active_balance_work[o]
                /\ pc'[c] = "ni_out" /\ local'[c].pulled = 0
                /\ UNCHANGED <<cfs_tasks, task_cpu, on_rq, abvars, reserved>>]_vars
\* a pull has armed the migration of the running misfit task of a little
\* cpu to the big cpu, queued the worker and reported zero
C17_Witness ==
    \E c \in Cpus :
        LET l == local[c] IN
        /\ pc[c] = "ni_out" /\ l.kind = "pull" /\ l.pulled = 0 /\ l.p # NoTask
        /\ capacity_orig_of(c) > capacity_orig_of(l.src)
        /\ active_balance[l.src] /\ push_cpu[l.src] = c /\ push_task[l.src] = l.p
        /\ curr[l.src] = l.p /\ task_misfit(l.p)
        /\ reserved[c] /\ active_balance_work[l.src]

\* C18, as stated: walt_lb_pull_tasks arms an active migration of the
\* running task only if no eligible task of the source is waiting; when
\* an eligible task waits, that task is pulled and nothing is armed
C18_ArmsOnlyIfNothingWaits ==
    [][\A c \in Cpus :
          LET l == local[c]
              waiting == {p \in PullCandidates(l.src, l.dst) : ~task_running(l.src, p)}
          IN PullScans(c) /\ waiting # {} =>
                /\ pc'[c] = "dlb" /\ local'[c].p \in waiting
                /\ UNCHANGED <<abvars, reserved>>]_vars

\* the position of p in the queue of cpu: the tail has the highest
QueuePos(p, cpu) == CHOOSE i \in 1 .. Len(cfs_tasks[cpu]) : cfs_tasks[cpu][i] = p
\* p may be moved to dst as far as (i) affinity and (iii) the exclusions
\* of a move to a lower-capacity cpu go
AllowedOnDst(p, src, dst) ==
    /\ dst \in cpus_ptr(p)
    /\ capacity_orig_of(dst) < capacity_orig_of(src) => ~in_iowait(p) /\ ~strict_max_boost(p)
\* (ii) p is not the pinned push task of an armed active migration
NotPinned(p) == \A o \in Cpus : push_task[o] # p

\* C19, as stated: a task moved by walt_lb_pull_tasks is allowed on the
\* destination by affinity, is not the pinned push task of an active
\* migration, is not I/O-waiting or strictly boosted when the destination
\* has lower capacity, and among the waiting tasks that satisfy these
\* conditions it is the one closest to the tail of the source queue, the
\* most recently enqueued
C19_PulledTaskEligibleNearestTail ==
    [][\A c \in Cpus :
          PullScans(c) /\ pc'[c] = "dlb" =>
              LET l == local[c]
                  p == local'[c].p
              IN /\ AllowedOnDst(p, l.src, l.dst)
                 /\ NotPinned(p)
                 /\ ~task_running(l.src, p)
                 /\ \A q \in LoadedTasks :
                       InQueue(q, l.src) /\ q # p /\ ~task_running(l.src, q)
                       /\ AllowedOnDst(q, l.src, l.dst) /\ NotPinned(q)
                       => /\ QueuePos(q, l.src) < QueuePos(p, l.src)
                          /\ last_enqueued_ts[q] <= last_enqueued_ts[p]]_vars

(* ---------------------------------------------------------------------- *)
(* The active-migration worker's successful path                           *)
(* ---------------------------------------------------------------------- *)
\* the worker of c takes the source lock and decides; it attaches
WorkerDecides(c) == pc[c] = "am_lock" /\ pc'[c] # "am_lock"
WorkerAttaches(c) == pc[c] = "attach" /\ local[c].kind = "am" /\ pc'[c] # "attach"
\* source and destination are active and the pinned task is queued and
\* runnable on the source
StillValid(c) ==
    /\ cpu_active[c] /\ cpu_active[local[c].dst]
    /\ local[c].p # NoTask
    /\ task_on_rq_queued(local[c].p) /\ task_state(local[c].p) = "TASK_RUNNING"
    /\ task_cpu[local[c].p] = c

\* C20: a worker that runs for an armed request while the source and the
\* destination are active and the pinned task is queued and runnable on
\* the source moves the task: it detaches it from the source under the
\* source lock, and when it completes the task is owned by the recorded
\* destination, queued there and in no other queue
C20_ValidRequestMoves ==
    [][\A c \in Cpus :
          LET l == local[c] IN
          /\ WorkerDecides(c) =>
                /\ active_balance[c] /\ push_task[c] = l.p /\ push_cpu[c] = l.dst
                /\ StillValid(c) =>
                      /\ pc'[c] = "dlb" /\ local'[c].p = l.p /\ local'[c].dst = l.dst
                      /\ cfs_tasks' = deactivate_task(cfs_tasks, c, l.p)
                      /\ InQueue(l.p, c)
          /\ WorkerAttaches(c) =>
                /\ QueuesOf(l.p) = {}
                /\ cfs_tasks' = activate_task(cfs_tasks, l.dst, l.p)
                /\ task_cpu'[l.p] = l.dst /\ on_rq'[l.p] = "queued"
                /\ l.dst # l.src /\ l.src = c
                /\ pc'[c] = "put" /\ local'[c].pulled = 1]_vars
\* a worker has completed the move: the pinned task is owned by and queued
\* on the destination and is not on the source
C20_Witness ==
    \E c \in Cpus :
        LET l == local[c] IN
        /\ pc[c] = "put" /\ l.kind = "am" /\ l.pulled = 1
        /\ task_cpu[l.p] = l.dst /\ QueuesOf(l.p) = {l.dst} /\ on_rq[l.p] = "queued"
        /\ ~active_balance[c] /\ ~reserved[l.dst]

(* ---------------------------------------------------------------------- *)
(* The locks the active-migration worker holds                             *)
(* ---------------------------------------------------------------------- *)
\* the rq locks context c holds
HeldBy(c) == {x \in Cpus : lock[x] = c}
Workers == {c \in Cpus : local[c].kind = "am"}

\* C21, as stated: the worker never holds the lock of its source and the
\* lock of its destination at the same time
C21_NeverBothLocks ==
    \A c \in Workers : ~(lock[local[c].src] = c /\ lock[local[c].dst] = c)

\* C21, amended: the worker revalidates and dequeues the push task holding
\* the source lock only; it holds the source and the destination lock
\* together only inside walt_detach_task, between double_lock_balance and
\* double_unlock_balance (lines 16-20), where it switches the owner of the
\* dequeued task; it holds no lock when it goes on to take the destination
\* lock for the attach, and none when it returns
C21_BothLocksOnlyInDetach ==
    \A c \in Workers :
        LET l == local[c] IN
        /\ pc[c] \in {"am_lock", "dlb_lo", "attach", "put"} => HeldBy(c) = {}
        /\ pc[c] \in {"dlb", "dlb_wait"} => HeldBy(c) = {l.src}
        /\ pc[c] = "dlb_hi" => HeldBy(c) = {Min2(l.src, l.dst)}
        /\ pc[c] = "dlb_both" => HeldBy(c) = {l.src, l.dst}
        /\ pc[c] \in {"dlb", "dlb_wait", "dlb_lo", "dlb_hi", "dlb_both"} =>
              /\ QueuesOf(l.p) = {} /\ task_cpu[l.p] = l.src
              /\ active_balance[c] /\ push_task[c] = l.p
        /\ pc[c] = "attach" => QueuesOf(l.p) = {} /\ task_cpu[l.p] = l.dst
        /\ pc[c] \in {"am_lock", "dlb", "dlb_wait", "dlb_lo", "dlb_hi", "dlb_both",
                      "attach", "put"}
\* a worker that has detached its task and released both locks waits for the
\* destination lock, which another context holds, while a third context
\* holds the source lock
C21_Witness ==
    \E c \in Workers :
        /\ pc[c] = "attach" /\ HeldBy(c) = {}
        /\ lock[local[c].dst] \notin {c, NoCpu}
        /\ lock[local[c].src] \notin {c, NoCpu}

(* ---------------------------------------------------------------------- *)
(* walt_lb_tick: the rotation branch and the arming branch                 *)
(* ---------------------------------------------------------------------- *)
\* the tick of c tests the rotation mode under the decision lock, line 500
TickTestsRotation(c) == pc[c] = "tick_mig" /\ pc'[c] # "tick_mig"
\* a step of the context of c
StepOf(c) == pc'[c] # pc[c]

\* C22: a tick on a misfit cpu that finds the rotation mode on when it
\* tests it only runs walt_lb_check_for_rotation and returns: it never
\* goes on to the arming branch, and none of its steps changes an
\* active_balance flag, a push target or a push-task marker, queues an
\* active-migration worker or moves a task; the arming branch is entered
\* only by a tick that found the rotation mode off
C22_RotationSupersedesArming ==
    [][\A c \in Cpus :
          /\ TickTestsRotation(c) /\ walt_rotation_enabled =>
                /\ pc'[c] \in {"idle", "rot_lo"}
                /\ pc'[c] = "rot_lo" => local'[c].kind = "rot" /\ local'[c].src = c
                /\ pc'[c] = "idle" => local'[c] = NoLocal
                /\ UNCHANGED <<abvars, active_balance_work, rqvars>>
          /\ StepOf(c) /\ local[c].kind = "rot" =>
                /\ pc[c] \in {"rot_lo", "rot_hi", "rot_queue"}
                /\ pc'[c] \in {"rot_hi", "rot_queue", "idle"}
                /\ UNCHANGED <<abvars, active_balance_work, rqvars>>
          /\ StepOf(c) /\ pc'[c] = "tick_new" =>
                TickTestsRotation(c) /\ ~walt_rotation_enabled
          /\ StepOf(c) /\ pc'[c] = "tick_rq" => local[c].kind = "tick" /\ pc[c] = "tick_new"
          /\ StepOf(c) /\ pc'[c] \in {"tick_mark", "tick_stop"} =>
                local[c].kind = "tick" /\ pc[c] \in {"tick_rq", "tick_mark"}]_vars
\* in rotation mode the tick of a misfit cpu has armed a rotation and is
\* about to return; the cpu is not armed for an active migration and no
\* worker is queued for it
C22_Witness ==
    \E c \in Cpus :
        /\ walt_rotation_enabled /\ misfit_task_load[c] # 0
        /\ pc[c] = "rot_queue" /\ local[c].kind = "rot"
        /\ ~active_balance[c] /\ push_task[c] = NoTask /\ ~active_balance_work[c]
        /\ walt_lb_rotate_works[c].dst_cpu = local[c].dst

\* the tick of c tests the answer of the placement function, line 509
TickAnswered(c) == pc[c] = "tick_new" /\ StepOf(c)
\* the answer is a cpu other than the one the tick runs on
AnswerDiffers(c) == local[c].dst # NoCpu /\ local[c].dst # c
\* the answer is a cpu of another cluster
AnswerOtherCluster(c) == local[c].dst # NoCpu /\ ~same_cluster(local[c].dst, c)

\* the arming branch of the tick of c, lines 509-535, when Passes(c) is the
\* condition under which the answer is acted on
TickArms(c, Passes(_)) ==
    LET l == local[c] IN
    /\ TickAnswered(c) =>
          /\ misfit_task_load[c] # 0 /\ l.p = curr[c] /\ l.p # NoTask
          /\ nr_cpus_allowed(l.p) > 1 /\ walt_lb_migration_lock = c
          /\ Passes(c) => pc'[c] = "tick_rq" /\ local'[c] = l
                          /\ walt_lb_migration_lock' = c
    /\ pc[c] = "tick_rq" /\ StepOf(c) /\ ~active_balance[c] =>
          /\ active_balance'[c] /\ push_cpu'[c] = l.dst /\ push_task'[c] = l.p
          /\ l.p = curr[c]
          /\ pc'[c] = "tick_mark" /\ local'[c] = l
    /\ pc[c] = "tick_mark" /\ StepOf(c) =>
          /\ active_balance[c] /\ push_cpu[c] = l.dst /\ push_task[c] = l.p
          /\ reserved'[l.dst] /\ walt_lb_migration_lock' = NoCpu
          /\ pc'[c] = "tick_stop"
    /\ pc[c] = "tick_stop" /\ StepOf(c) =>
          /\ active_balance[c] /\ push_cpu[c] = l.dst /\ push_task[c] = l.p
          /\ active_balance_work'[c]
          /\ pc'[c] = "idle"

\* C23, as stated: with the rotation mode off, the tick of a cpu whose
\* running task is misfit and may run elsewhere arms an active migration
\* of that task whenever the placement function answers a cpu other than
\* the current one and the current cpu is not already armed
C23_ArmsWhenAnswerDiffers ==
    [][\A c \in Cpus : TickArms(c, AnswerDiffers)]_vars

\* C23, amended: the tick arms when the answer is a cpu of another cluster
\* and the current cpu is not already armed: it sets active_balance,
\* records the answer as push target and the running task as push task
\* under the rq lock, reserves the answer, releases the decision lock and
\* queues the worker on the current cpu; when the answer is none or a cpu
\* of the own cluster, or the cpu is already armed, it arms nothing
C23_ArmsWhenAnswerInOtherCluster ==
    [][\A c \in Cpus :
          /\ TickArms(c, AnswerOtherCluster)
          /\ TickAnswered(c) /\ ~AnswerOtherCluster(c) =>
                /\ pc'[c] = "idle" /\ walt_lb_migration_lock' = NoCpu
                /\ UNCHANGED <<abvars, reserved, active_balance_work, rqvars>>
          /\ pc[c] = "tick_rq" /\ StepOf(c) /\ active_balance[c] =>
                /\ pc'[c] = "idle" /\ walt_lb_migration_lock' = NoCpu
                /\ UNCHANGED <<abvars, reserved, active_balance_work, rqvars>>]_vars
\* a tick of the big cpu has armed the migration of its running misfit task
\* to a little cpu and queued the worker
C23_Witness ==
    \E c, d \in Cpus :
        /\ ~same_cluster(c, d) /\ capacity_orig_of(d) < capacity_orig_of(c)
        /\ pc[c] = "idle" /\ active_balance[c] /\ push_cpu[c] = d
        /\ push_task[c] = curr[c] /\ curr[c] # NoTask /\ task_misfit(curr[c])
        /\ reserved[d] /\ active_balance_work[c]
        /\ walt_lb_migration_lock = NoCpu /\ ~walt_rotation_enabled

(* ---------------------------------------------------------------------- *)
(* The migration-decision lock                                             *)
(* ---------------------------------------------------------------------- *)
\* the positions of walt_lb_tick between the lock of line 498 and the
\* unlock of line 524 or 538, walt_lb_check_for_rotation included
DecisionSection == {"tick_new", "tick_rq", "tick_mark", "rot_lo", "rot_hi", "rot_queue"}
InDecision == {c \in Cpus : pc[c] \in DecisionSection}
DecisionLockOK ==
    /\ Cardinality(InDecision) <= 1
    /\ \A c \in Cpus : walt_lb_migration_lock = c <=> c \in InDecision
    /\ \A c \in InDecision : local[c].kind \in {"tick", "rot"}
    /\ \A c \in Cpus : pc[c] \in {"idle", "tick_stop"} \/ local[c].kind = "am"
                          => walt_lb_migration_lock # c

\* C24: at most one cpu is inside the decision section of walt_lb_tick, and
\* it is the holder of the decision lock; a tick that has returned, and a
\* tick that is about to queue the active-migration worker, does not hold
\* the lock; only a step of walt_lb_tick takes or releases the lock: no
\* step of the active-migration worker and no step of the rotation work
\* function changes it
C24_DecisionLockSerializesTicks ==
    [][/\ DecisionLockOK /\ DecisionLockOK'
       /\ walt_lb_migration_lock' # walt_lb_migration_lock =>
             \E c \in Cpus :
                /\ StepOf(c) /\ local[c].kind \in {"tick", "rot"}
                /\ walt_lb_migration_lock \in {c, NoCpu}
                /\ walt_lb_migration_lock' \in {c, NoCpu}
       /\ \A c \in Cpus :
             /\ StepOf(c) /\ (local[c].kind = "am" \/ local'[c].kind = "am") =>
                   UNCHANGED walt_lb_migration_lock
             /\ SwapRuns(c) \/ WorkEnds(c) => UNCHANGED walt_lb_migration_lock
             /\ pc[c] = "tick_stop" /\ StepOf(c) =>
                   /\ walt_lb_migration_lock # c /\ walt_lb_migration_lock' # c
                   /\ active_balance_work'[c]]_vars
\* a tick holds the decision lock in its arming branch while the tick of
\* another cpu waits for the lock
C24_Witness ==
    \E c, d \in Cpus :
        /\ walt_lb_migration_lock = c /\ pc[c] \in {"tick_rq", "tick_mark"}
        /\ pc[d] = "tick_mig" /\ d # c /\ local[d].kind = "tick"

(* ---------------------------------------------------------------------- *)
(* Writes to a cpu's queue and balancing flags                             *)
(* ---------------------------------------------------------------------- *)
\* the step writes the queue of u, or its active_balance flag, push target
\* or push-task marker
WritesUnit(u) ==
    \/ cfs_tasks'[u] # cfs_tasks[u]
    \/ active_balance'[u] # active_balance[u]
    \/ push_cpu'[u] # push_cpu[u]
    \/ push_task'[u] # push_task[u]
\* the contexts that take the step
Steppers == {c \in Cpus : StepOf(c)}
\* the operations of walt_lb_pull_tasks, walt_newidle_balance, walt_lb_tick
\* and walt_lb_active_migration
BalancerKinds == {"pull", "tick", "am"}

\* C25: every step that writes the queue or a balancing flag of a cpu is
\* taken while the writer holds that cpu's rq lock: the writer either holds
\* the lock before the step or takes it in the step, so no other context
\* holds it; this holds for the steps of the pull, of the newidle balance,
\* of the tick and of the worker, which write no other cpu's fields than
\* those of the source (dequeue, flags) and of the destination (enqueue)
C25_WritesUnderOwnersLock ==
    [][\A u \in Cpus : WritesUnit(u) =>
          /\ lock[u] = NoCpu \/ lock[u] \in Steppers
          /\ \A c \in Steppers :
                (local[c].kind \in BalancerKinds \/ local'[c].kind \in BalancerKinds) =>
                    /\ lock[u] \in {c, NoCpu}
                    /\ u \in {local[c].src, local[c].dst, local'[c].src, local'[c].dst, c}
                    /\ cfs_tasks'[u] # cfs_tasks[u] /\ pc[c] = "attach" => u = local[c].dst
                    /\ cfs_tasks'[u] # cfs_tasks[u] /\ pc[c] # "attach" =>
                          u = local'[c].src /\ lock'[u] = c
                    /\ push_task'[u] # push_task[u] \/ active_balance'[u] # active_balance[u] =>
                          u = local[c].src]_vars
\* a pull holds the lock of the source whose queue it has just dequeued
\* from, while the worker of that source waits for the same lock to write
\* the flags
C25_Witness ==
    \E c, d \in Cpus :
        /\ local[c].kind = "pull" /\ pc[c] = "dlb" /\ lock[local[c].src] = c
        /\ ~InQueue(local[c].p, local[c].src)
        /\ d = local[c].src /\ pc[d] = "am_lock" /\ active_balance[d]

(* ---------------------------------------------------------------------- *)
(* The peer-tier policy                                                    *)
(* ---------------------------------------------------------------------- *)
\* the call under test is answered by the peer-tier policy: it is called
\* directly, or through the dispatcher with a destination of the
\* candidates' capacity
PeerTierCall ==
    /\ sel.phase = "applied"
    /\ \/ sel.fn = "similar_cap"
       \/ /\ sel.fn = "find_busiest_cpu"
          /\ capacity_orig_of(sel.dst_cpu) = capacity_orig_of(cpumask_first(sel.src_mask))
\* the candidates with two or more queued tasks
PeerEligible(s, src_mask) == {i \in src_mask : s.nr[i] >= 2}
PeerBusiest(s, src_mask, out) ==
    IF PeerEligible(s, src_mask) = {} THEN out = NoCpu
    ELSE /\ out \in PeerEligible(s, src_mask)
         /\ \A o \in PeerEligible(s, src_mask) : s.util[o] <= s.util[out]

\* C26: the peer-tier policy returns a candidate with at least two queued
\* tasks whose utilization is not below that of any other such candidate,
\* and returns none exactly when no candidate has two queued tasks
C26_PeerTierPicksBusiest ==
    PeerTierCall =>
        /\ PeerBusiest(sel.s, sel.src_mask, sel.out_s)
        /\ PeerBusiest(sel.t, sel.src_mask, sel.out_t)
        /\ sel.out_s = NoCpu <=> PeerEligible(sel.s, sel.src_mask) = {}
\* two candidates have two or more queued tasks, the first scanned has the
\* higher utilization and is returned although the other has the longer
\* queue
C26_Witness ==
    /\ PeerTierCall /\ sel.fn = "find_busiest_cpu"
    /\ \E a, b \in PeerEligible(sel.s, sel.src_mask) :
          /\ a < b /\ sel.s.util[a] > sel.s.util[b] /\ sel.s.nr[a] < sel.s.nr[b]
          /\ sel.out_s = a

\* the eligible candidates of the highest utilization
PeerTied(s, src_mask) ==
    {i \in PeerEligible(s, src_mask) :
        \A o \in PeerEligible(s, src_mask) : s.util[o] <= s.util[i]}

\* C27, as stated: when several eligible candidates share the highest
\* utilization the peer-tier policy returns the one scanned first
C27_TieGoesToFirstScanned ==
    PeerTierCall /\ Cardinality(PeerTied(sel.s, sel.src_mask)) > 1 =>
        sel.out_s = cpumask_first(PeerTied(sel.s, sel.src_mask))

(* ---------------------------------------------------------------------- *)
(* The cross-tier policies                                                 *)
(* ---------------------------------------------------------------------- *)
\* the call under test is answered by a cross-tier policy: one of the two
\* is called directly, or through the dispatcher with a destination whose
\* capacity differs from the candidates'
CrossTierCall ==
    /\ sel.phase = "applied"
    /\ \/ sel.fn \in {"higher_cap", "lower_cap"}
       \/ /\ sel.fn = "find_busiest_cpu"
          /\ capacity_orig_of(sel.dst_cpu) # capacity_orig_of(cpumask_first(sel.src_mask))
ActiveOverutilized(s, out) == out # NoCpu => s.active[out] /\ cpu_overutilized(s, out)

\* C28: with the rotation mode off a cross-tier selection returns none or
\* a candidate that is active and overutilized; in either mode it never
\* returns an inactive cpu
C28_CrossTierNeedsOverutilized ==
    CrossTierCall =>
        /\ ~sel.s.rot => ActiveOverutilized(sel.s, sel.out_s)
        /\ ~sel.t.rot => ActiveOverutilized(sel.t, sel.out_t)
        /\ sel.out_s # NoCpu => sel.s.active[sel.out_s]
        /\ sel.out_t # NoCpu => sel.t.active[sel.out_t]
\* the same statistics in both modes: with the rotation mode off the
\* dispatcher returns none, with the rotation mode on it returns a
\* candidate that is not overutilized
C28_Witness ==
    /\ CrossTierCall /\ sel.fn = "find_busiest_cpu"
    /\ ~sel.s.rot /\ sel.t = [sel.s EXCEPT !.rot = TRUE]
    /\ sel.out_s = NoCpu
    /\ sel.out_t # NoCpu /\ ~cpu_overutilized(sel.t, sel.out_t) /\ sel.t.active[sel.out_t]

\* the sum of f over the cpus of a set
RECURSIVE TotalOver(_, _)
TotalOver(f, cpus) ==
    IF cpus = {} THEN 0
    ELSE LET i == cpumask_first(cpus) IN f[i] + TotalOver(f, cpus \ {i})
\* the active candidates of a call, and whether they are, in aggregate, not
\* loaded enough: no more queued tasks than cpus, or 1.25 times their
\* utilization below their capacity
ActiveCandidates(s, src_mask) == {i \in src_mask : s.active[i]}
NotLoadedEnough(s, src_mask) ==
    LET A == ActiveCandidates(s, src_mask) IN
    \/ TotalOver(s.nr, A) <= Cardinality(A)
    \/ TotalOver(s.util, A) * 1280 < TotalOver([i \in Cpus |-> capacity_orig_of(i)], A) * 1024
\* the call under test is answered by the policy with the big-task rule
BigTaskRuleCall ==
    \/ sel.fn = "lower_cap"
    \/ /\ sel.fn = "find_busiest_cpu"
       /\ capacity_orig_of(sel.dst_cpu) < capacity_orig_of(cpumask_first(sel.src_mask))
GateClosed(s, out) ==
    ~s.rot /\ NotLoadedEnough(s, sel.src_mask) =>
        \/ out = NoCpu
        \/ BigTaskRuleCall /\ s.big[out] > 0

\* C29: with the rotation mode off a cross-tier selection returns none
\* whenever the active candidates have in total no more queued tasks than
\* there are of them, or 1280 times their total utilization is below 1024
\* times their total capacity, except that the policy with the big-task
\* rule may return a cpu that has a big task
C29_AggregateGate ==
    CrossTierCall => GateClosed(sel.s, sel.out_s) /\ GateClosed(sel.t, sel.out_t)
\* the same statistics in both modes, the candidates not loaded enough in
\* aggregate: with the rotation mode off the overutilized candidate with
\* two queued tasks is not returned, with the rotation mode on it is
C29_Witness ==
    /\ CrossTierCall /\ ~BigTaskRuleCall
    /\ ~sel.s.rot /\ sel.t = [sel.s EXCEPT !.rot = TRUE]
    /\ NotLoadedEnough(sel.s, sel.src_mask)
    /\ sel.out_s = NoCpu /\ sel.out_t # NoCpu
    /\ cpu_overutilized(sel.s, sel.out_t) /\ sel.s.nr[sel.out_t] >= 2
    /\ TotalOver(sel.s.nr, ActiveCandidates(sel.s, sel.src_mask))
          > Cardinality(ActiveCandidates(sel.s, sel.src_mask))

\* the dispatcher is called by a destination of lower capacity than the
\* candidates
PullUpCall ==
    /\ sel.phase = "applied" /\ sel.fn = "find_busiest_cpu"
    /\ capacity_orig_of(sel.dst_cpu) < capacity_orig_of(cpumask_first(sel.src_mask))
SmallTaskPair(s, out) ==
    out # NoCpu /\ s.nr[out] = 2 /\ s.curr_util[out] < SMALL_TASK_THRESHOLD

\* C30, as stated: called by a destination of lower capacity than the
\* candidates, walt_lb_find_busiest_cpu never returns a candidate that has
\* exactly two queued tasks and runs a task whose demand is below the
\* small-task threshold
C30_PullUpSkipsSmallTaskPair ==
    PullUpCall => ~SmallTaskPair(sel.s, sel.out_s) /\ ~SmallTaskPair(sel.t, sel.out_t)

(* ---------------------------------------------------------------------- *)
(* The dispatcher called by a destination of higher capacity               *)
(* ---------------------------------------------------------------------- *)
\* the dispatcher is called by a destination of higher capacity than the
\* candidates
PullDownCall ==
    /\ sel.phase = "applied" /\ sel.fn = "find_busiest_cpu"
    /\ capacity_orig_of(sel.dst_cpu) > capacity_orig_of(cpumask_first(sel.src_mask))
ReturnsActiveBalancing(s, out) == out # NoCpu /\ s.ab[out]

\* C31, as stated: called by a destination of higher capacity than the
\* candidates, walt_lb_find_busiest_cpu never returns a candidate whose
\* active_balance flag is set
C31_PullDownSkipsActiveBalancing ==
    PullDownCall =>
        ~ReturnsActiveBalancing(sel.s, sel.out_s) /\ ~ReturnsActiveBalancing(sel.t, sel.out_t)

\* candidate i is one the big-task rule makes eligible with a single
\* queued task: active, not active-balancing, overutilized unless the
\* rotation mode is on, holding a big task, and of strictly higher
\* utilization than every other candidate
BigSingle(s, i) ==
    /\ i \in sel.src_mask /\ s.active[i] /\ ~s.ab[i]
    /\ s.nr[i] = 1 /\ s.big[i] >= 1
    /\ s.rot \/ cpu_overutilized(s, i)
    /\ \A o \in sel.src_mask \ {i} : s.util[o] < s.util[i]
BigTaskRule(s, out) ==
    /\ \A i \in Cpus : BigSingle(s, i) => out = i
    /\ out # NoCpu => s.nr[out] >= 2 \/ s.big[out] >= 1

\* C32, as stated: called by a destination of higher capacity than the
\* candidates, walt_lb_find_busiest_cpu returns the busiest candidate when
\* it holds a big task and has a single queued task, whatever the
\* aggregate load of the candidates, and never returns a candidate with
\* fewer than two queued tasks and no big task
C32_PullDownBigTaskRule ==
    PullDownCall => BigTaskRule(sel.s, sel.out_s) /\ BigTaskRule(sel.t, sel.out_t)

(* ---------------------------------------------------------------------- *)
(* Rotation: the most deserving source                                     *)
(* ---------------------------------------------------------------------- *)
MinCpus == {c \in Cpus : is_min_capacity_cpu(c)}
\* how long the running task of cpu has been on its queue
RunWait(cpu) == sched_ktime_clock - curr_enqueue_ns(cpu)
\* the tick of c calls walt_lb_check_for_rotation, which goes on to lock
\* the pair it chose
RotationProceeds(c) == TickTestsRotation(c) /\ walt_rotation_enabled /\ pc'[c] = "rot_lo"
\* the cpus whose call would pass both scans in this state
WouldArm == {c \in Cpus : rotation_scan(c) # nr_cpu_ids}

\* C33, as stated: walt_lb_check_for_rotation goes on only for a
\* minimum-capacity caller whose running task has waited at least as long
\* as the running task of every minimum-capacity cpu, and in no state would
\* the calls of two cpus both go on
C33_LongestWaitOfAll ==
    [][/\ \A c \in Cpus : RotationProceeds(c) =>
             /\ c \in MinCpus
             /\ \A o \in MinCpus : curr[o] # NoTask => RunWait(o) <= RunWait(c)
       /\ Cardinality(WouldArm) <= 1]_vars

\* the minimum-capacity cpus the first scan considers: not reserved, with
\* a misfit load, the running task enqueued before now
Contenders == {o \in MinCpus : ~is_reserved(o) /\ misfit_task_load[o] # 0 /\ RunWait(o) > 0}
\* c is the contender that waited longest, the lowest-numbered on a tie
Deserving(c) ==
    /\ c \in Contenders
    /\ \A o \in Contenders : RunWait(o) < RunWait(c) \/ (RunWait(o) = RunWait(c) /\ c <= o)

\* C33, amended: walt_lb_check_for_rotation goes on only for the caller
\* that, among the minimum-capacity cpus that are not reserved and have a
\* misfit load, has the running task that waited longest (the
\* lowest-numbered on a tie); the first scan answers that cpu and no
\* other, and in no state would the calls of two cpus both go on
C33_LongestWaitOfContenders ==
    [][/\ \A c \in Cpus : RotationProceeds(c) => Deserving(c)
       /\ \A c \in Cpus :
             deserved_loop(for_each_cpu(Cpus), sched_ktime_clock, 0, nr_cpu_ids) = c
                <=> Deserving(c)
       /\ Cardinality(WouldArm) <= 1]_vars
\* a caller goes on although another contender has a misfit task that
\* waited, for a shorter time
C33_Witness ==
    \E c \in Cpus, o \in Contenders :
        /\ pc[c] = "rot_lo" /\ local[c].src = c /\ Deserving(c)
        /\ o # c /\ RunWait(o) < RunWait(c)

(* ---------------------------------------------------------------------- *)
(* Rotation: the destination                                               *)
(* ---------------------------------------------------------------------- *)
\* a destination as the claim describes it: of higher capacity, running a
\* task of real-time priority alone on its queue for more than the
\* threshold
StatedDst(i) ==
    /\ ~is_min_capacity_cpu(i)
    /\ curr_prio(i) < MAX_RT_PRIO
    /\ nr_running(i) = 1
    /\ RunWait(i) > WALT_ROTATION_THRESHOLD_NS
\* a destination as the second scan takes it: of higher capacity, not
\* reserved, running a task that is not of real-time priority (the idle
\* task is none), at most one task runnable, for the threshold or longer
ScannedDst(i) ==
    /\ ~is_min_capacity_cpu(i)
    /\ ~is_reserved(i)
    /\ curr_prio(i) >= MAX_RT_PRIO
    /\ nr_running(i) <= 1
    /\ RunWait(i) >= WALT_ROTATION_THRESHOLD_NS
\* i is the cpu with the longest run among those that Meets holds for
LongestRun(i, Meets(_)) == Meets(i) /\ \A o \in Cpus : Meets(o) => RunWait(o) <= RunWait(i)
\* the tick of c calls walt_lb_check_for_rotation, which returns
RotationReturns(c) == TickTestsRotation(c) /\ walt_rotation_enabled /\ pc'[c] = "idle"

RotArms(c) == pc[c] = "rot_hi" /\ pc'[c] = "rot_queue"
RotGivesUp(c) == pc[c] = "rot_hi" /\ pc'[c] = "idle"
\* the running task of cpu is a task, not the idle task, and not of
\* real-time priority
RunsFairTask(cpu) == curr[cpu] # NoTask /\ task_prio(curr[cpu]) >= MAX_RT_PRIO
\* c holds the first lock of its pair and the second is free for it to take
HoldsPairLocks(c) ==
    /\ lock[Min2(local[c].src, local[c].dst)] = c
    /\ lock[Max2(local[c].src, local[c].dst)] = NoCpu
\* the four fields of the work item of cpu x
WorkFields(w) == <<w.src_task, w.dst_task, w.src_cpu, w.dst_cpu>>

\* C35: walt_lb_check_for_rotation goes on only with a source and a
\* destination that are not reserved when scanned; it marks the two
\* reserved and writes the work item only in the step that holds both rq
\* locks and finds both running tasks to be tasks of the required
\* priority; when that test fails it leaves the reservations and the work
\* items alone and queues nothing; a work item is written by no other
\* step and queued only after it was written
C35_ArmingAtomicAndGuarded ==
    [][\A c \in Cpus :
          /\ RotationProceeds(c) => ~is_reserved(c) /\ ~is_reserved(local'[c].dst)
          /\ RotArms(c) =>
                /\ HoldsPairLocks(c)
                /\ RunsFairTask(local[c].src) /\ RunsFairTask(local[c].dst)
                /\ reserved' = [reserved EXCEPT ![local[c].src] = TRUE, ![local[c].dst] = TRUE]
                /\ WorkFields(walt_lb_rotate_works'[local[c].src])
                      = <<curr[local[c].src], curr[local[c].dst], local[c].src, local[c].dst>>
                /\ \A x \in Cpus : lock'[x] # c
          /\ RotGivesUp(c) =>
                /\ HoldsPairLocks(c)
                /\ ~(RunsFairTask(local[c].src) /\ RunsFairTask(local[c].dst))
                /\ UNCHANGED <<reserved, walt_lb_rotate_works>>
                /\ \A x \in Cpus : lock'[x] # c
          /\ local[c].kind = "rot" /\ StepOf(c) /\ ~RotArms(c) => reserved' = reserved
          /\ walt_lb_rotate_works'[c].src_cpu # NoCpu
                /\ WorkFields(walt_lb_rotate_works'[c]) # WorkFields(walt_lb_rotate_works[c])
                => \E a \in Cpus : RotArms(a) /\ local[a].src = c
          /\ walt_lb_rotate_works'[c].pending /\ ~walt_lb_rotate_works[c].pending
                => \E a \in Cpus : /\ pc[a] = "rot_queue" /\ local[a].src = c
                                   /\ walt_lb_rotate_works[c].src_cpu = c]_vars
\* a rotation has been armed: both cpus are reserved, the work item names
\* the two running tasks, and the locks are released again
C35_Witness ==
    \E c \in Cpus :
        /\ pc[c] = "rot_queue"
        /\ reserved[local[c].src] /\ reserved[local[c].dst]
        /\ walt_lb_rotate_works[local[c].src].src_task = curr[local[c].src]
        /\ walt_lb_rotate_works[local[c].src].dst_task = curr[local[c].dst]
        /\ ~walt_lb_rotate_works[local[c].src].pending
        /\ \A x \in Cpus : lock[x] # c

(* ---------------------------------------------------------------------- *)
(* Rotation: the work item between its queueing and its execution          *)
(* ---------------------------------------------------------------------- *)
\* the work item of cpu c is queued and walt_lb_rotate_work_func has not
\* started on it
WorkQueued(c) == walt_lb_rotate_works[c].pending
\* a context arms, or queues, a rotation whose source is c
ArmsFor(c) == \E a \in Cpus : local[a].kind = "rot" /\ local[a].src = c /\ StepOf(a)
                                /\ pc[a] \in {"rot_hi", "rot_queue"} /\ pc'[a] # "idle"

\* C36, as stated: while the work item of a cpu is queued and its swap has
\* not been executed, no step writes its four fields and no context arms
\* or queues a rotation with that source, whatever active migrations set
\* or clear reservations meanwhile; the item stays queued until
\* walt_lb_rotate_work_func runs it
C36_WorkItemOwnedUntilSwap ==
    [][\A c \in Cpus : WorkQueued(c) =>
          /\ WorkFields(walt_lb_rotate_works'[c]) = WorkFields(walt_lb_rotate_works[c])
          /\ ~ArmsFor(c)
          /\ \/ walt_lb_rotate_works'[c].pending
             \/ walt_lb_rotate_works'[c].ran # "no"]_vars

(* ---------------------------------------------------------------------- *)
(* The three fields of an armed source                                     *)
(* ---------------------------------------------------------------------- *)
\* the request recorded on cpu u
Request(u) == <<active_balance[u], push_cpu[u], push_task[u]>>
\* a step writes the request of u and leaves it armed
ArmsSource(u) ==
    /\ active_balance'[u]
    /\ <<active_balance'[u], push_cpu'[u], push_task'[u]>> # Request(u)
\* the step is the one of a tick of u, or of a pull from u, that holds the
\* lock of u
ArmedUnderLock(u) ==
    \/ pc[u] = "tick_rq" /\ pc'[u] = "tick_mark" /\ lock[u] = NoCpu
           /\ push_cpu'[u] = local[u].dst /\ push_task'[u] = local[u].p
    \/ \E a \in Cpus \ {u} :
           /\ pc[a] = "pull_src" /\ pc'[a] = "pull_stop" /\ local[a].src = u
           /\ lock[u] = NoCpu /\ push_cpu'[u] = a

\* C38: in every state active_balance of a cpu is set exactly when its
\* push_task is not null, and then push_cpu names another cpu; a step arms
\* a cpu only when its active_balance was clear, and it is the step of a
\* tick or of a pull that holds the cpu's lock; the flag and the marker
\* are cleared together, by the worker of the cpu under the cpu's lock
C38_ArmedFieldsAgree ==
    [][\A u \in Cpus :
          /\ active_balance[u] <=> push_task[u] # NoTask
          /\ active_balance[u] => push_cpu[u] \in Cpus \ {u}
          /\ ArmsSource(u) =>
                /\ ~active_balance[u] /\ push_task[u] = NoTask
                /\ ArmedUnderLock(u)
                /\ push_task'[u] # NoTask /\ push_cpu'[u] # u
          /\ active_balance[u] /\ ~active_balance'[u] =>
                /\ push_task'[u] = NoTask
                /\ local[u].kind = "am" /\ StepOf(u)
                /\ \/ pc[u] = "am_lock" /\ lock[u] = NoCpu
                   \/ pc[u] = "dlb_both" /\ lock[u] = u]_vars
\* the tick of a cpu has taken its rq lock to record a request and finds
\* the cpu armed by a pull
C38_Witness ==
    \E u \in Cpus :
        /\ pc[u] = "tick_rq" /\ active_balance[u] /\ push_task[u] # NoTask
        /\ push_cpu[u] # u /\ push_cpu[u] = local[u].dst

(* ---------------------------------------------------------------------- *)
(* Scan order of the newidle balance                                       *)
(* ---------------------------------------------------------------------- *)
\* what the selector answers for cpu c in the k-th cluster of its row
ClusterAnswer(c, util, k) ==
    walt_lb_find_busiest_cpu(Snapshot(util), c, cpu_array(cluster_id(c), k))
ScanIndexes == 0 .. num_sched_clusters - 1
\* src is the answer of the first cluster of the row that gives one
FirstAnswer(c, util, src) ==
    \E k \in ScanIndexes :
        /\ ClusterAnswer(c, util, k) = src /\ src # NoCpu
        /\ \A j \in 0 .. k - 1 : ClusterAnswer(c, util, j) = NoCpu
NoAnswer(c, util) == \A k \in ScanIndexes : ClusterAnswer(c, util, k) = NoCpu

\* C37: the row of a cpu starts with its own cluster; the scan goes on
\* only if the cpu is active and the root domain overloaded; a pull is
\* attempted only from the scan, with an empty own queue, and its source is
\* the answer of the first cluster of the row that gives one; when a task
\* was queued on the cpu during the scan, or no cluster gives an answer,
\* the balance goes to its end without a pull
C37_NewidleScanOrder ==
    [][\A c \in Cpus :
          /\ c \in cpu_array(cluster_id(c), 0)
          /\ pc[c] = "idle" /\ pc'[c] = "ni_scan" => cpu_active[c] /\ rd_overload
          /\ pc'[c] = "pull_src" /\ pc[c] # "pull_src" =>
                /\ pc[c] = "ni_scan" /\ nr_running(c) = 0
                /\ local'[c].dst = c /\ local'[c].src # c
                /\ \E util \in UtilInputs : FirstAnswer(c, util, local'[c].src)
          /\ pc[c] = "ni_scan" /\ StepOf(c) /\ nr_running(c) > 0 => pc'[c] = "ni_out"
          /\ pc[c] = "ni_scan" /\ StepOf(c) /\ pc'[c] # "pull_src" =>
                /\ pc'[c] = "ni_out"
                /\ \/ nr_running(c) > 0
                   \/ \E util \in UtilInputs : NoAnswer(c, util) \/ FirstAnswer(c, util, c)]_vars
\* a cpu pulls from a cpu of the second cluster of its row, its own
\* cluster having given no answer
C37_Witness ==
    \E c \in Cpus :
        /\ pc[c] = "pull_src" /\ local[c].dst = c
        /\ Cardinality(cpu_array(cluster_id(c), 0)) > 1
        /\ local[c].src \in cpu_array(cluster_id(c), 1)
        /\ ~same_cluster(c, local[c].src)

(* ---------------------------------------------------------------------- *)
(* What walt_newidle_balance reports                                       *)
(* ---------------------------------------------------------------------- *)
\* cpu c takes its lock again at the out label and computes its report
NewidleReports(c) == pc[c] = "ni_out" /\ pc'[c] = "ni_ret"
\* walt_lb_pull_tasks returned 1 to the balance of cpu c
PulledHere(c) == local[c].kind = "pull" /\ local[c].pulled = 1

\* C39, as stated: the lock of the cpu is released during the scan and held
\* again from the out label to the return; the report is -1 if a task of a
\* class above the fair class is queued on the cpu, otherwise non-zero
\* exactly if a fair task is queued on it, otherwise 0; the idle stamp is
\* reset to 0 exactly when the report is not 0
C39_ReportReflectsQueue ==
    [][\A c \in Cpus :
          /\ pc[c] \in {"ni_scan", "ni_out"} => lock[c] # c
          /\ pc[c] = "ni_ret" => lock[c] = c
          /\ NewidleReports(c) =>
                /\ lock'[c] = c
                /\ local'[c].pulled = -1 <=> active_balance_work'[c]
                /\ ~active_balance_work'[c] =>
                      (local'[c].pulled # 0 <=> cfs_tasks'[c] # <<>>)
                /\ idle_stamp'[c] = 0 <=> local'[c].pulled # 0
                /\ local'[c].pulled = 0 => idle_stamp'[c] = idle_stamp[c]]_vars

\* C39, amended: as above, but without a task of a higher class the report
\* is non-zero exactly if walt_lb_pull_tasks pulled a task here or a fair
\* task is queued on the cpu
C39_ReportCountsPulledTask ==
    [][\A c \in Cpus :
          /\ pc[c] \in {"ni_scan", "ni_out"} => lock[c] # c
          /\ pc[c] = "ni_ret" => lock[c] = c
          /\ NewidleReports(c) =>
                /\ lock'[c] = c
                /\ local'[c].pulled = -1 <=> active_balance_work'[c]
                /\ ~active_balance_work'[c] =>
                      (local'[c].pulled # 0 <=> PulledHere(c) \/ cfs_tasks'[c] # <<>>)
                /\ idle_stamp'[c] = 0 <=> local'[c].pulled # 0
                /\ local'[c].pulled = 0 => idle_stamp'[c] = idle_stamp[c]]_vars
\* a balance reports the task it pulled, holding its lock again, after
\* another cpu has taken that task off its queue, and the idle stamp is reset
C39_Witness ==
    \E c \in Cpus :
        /\ pc[c] = "ni_ret" /\ lock[c] = c /\ local[c].pulled = 1
        /\ cfs_tasks[c] = <<>> /\ ~active_balance_work[c]
        /\ idle_stamp[c] = 0

====
